---- MODULE Spec2Model ----
(***************************************************************************)
(* Model of the claude-code-bridge core: the Bridge class (lifecycle,      *)
(* peer registry, task / context-request correlation, routing and          *)
(* forwarding of inbound messages) and WebSocketTransport (connect, send,  *)
(* queue and flush, close handling, reconnect scheduling, disconnect,      *)
(* inbound frames), the protocol's serialization and validation, and the  *)
(* context manager's getRelevantContext and getDelta.                      *)
(*                                                                         *)
(* JavaScript runs one handler at a time: every action below is one        *)
(* event-loop turn (an API call up to its first pending await, a socket    *)
(* event, a timer) together with the promise continuations it resolves,    *)
(* which run as microtasks before any other event.                         *)
(***************************************************************************)
EXTENDS Integers, Sequences, FiniteSets, TLC

\* ---------------------------------------------------------------- bounds
MaxStarts      == 1   \* start() calls that get past the 'already started' check
MaxPeers       == 2   \* peer ids handed out by uuidv4() (accepted + dialed)
MaxTaskId      == 2   \* distinct task ids the caller uses
MaxTaskCalls   == 2   \* delegateTask() calls that register an entry
MaxCtxCalls    == 1   \* requestContext() calls that register an entry
maxReconnectAttempts == 2  \* config.maxReconnectAttempts handed to connect()
MaxConnects    == 2   \* connect() calls on a transport used on its own
MaxSends       == 3   \* send() calls on a transport used on its own
MaxFrames      == 3   \* inbound frames received over all sockets
MaxDisconnectCalls == 2  \* disconnectFromPeer() calls
MaxBroadcasts  == 1   \* broadcast() and syncContext() calls
MaxAutoSyncStarts == 2   \* startAutoSync() calls
MaxTicks       == 2   \* firings of the auto-sync interval
MaxRejected    == 2   \* connection attempts the authenticator rejects
MaxFiles       == 2   \* files the context manager ranks for a task
MaxLines       == 2   \* lines of a file
MaxWords       == 3   \* words on a line
MaxBudget      == 6   \* maxTokens given to getRelevantContext
MaxPaths       == 3   \* paths a snapshot may hold
MaxStat        == 2   \* distinct mtime values and distinct sizes of a file
MaxClock       == 2   \* distinct values Date.now() returns after construction

TaskIds   == 1..MaxTaskId
PeerIds   == 1..MaxPeers
Slots     == 1..MaxStarts      \* one WebSocketTransport object per start()

VARIABLES
  mode,                    \* config.mode with the matching listen / connect blocks
  started,                 \* Bridge.started
  server,                  \* Bridge.server and the listener's state
  clientTransport,         \* Bridge.clientTransport: 0 = null, else a slot
  peers,                   \* Bridge.peers: insertion-ordered sequence of records
  nextPeer,                \* peer ids handed out so far
  conns,                   \* readyState of each accepted socket, by peer id
  transports,              \* the WebSocketTransport objects, by slot
  pendingTasks,            \* Bridge.pendingTasks: task id -> call (0 = absent)
  taskCalls,               \* per delegateTask call: its promise, timer, send
  pendingContextRequests,  \* Bridge.pendingContextRequests: set of calls
  ctxCalls,                \* per requestContext call: its promise, timer, send
  pc,                      \* where the running start()/stop() is suspended
  owner,                   \* which call runs cleanup(): "start", "stop", "none"
  starts,                  \* start() calls made so far
  startRes,                \* outcome of the latest start() call
  stopRes,                 \* outcome of the latest stop() call
  stopDuringStart,         \* a stop() was called while the latest start() ran
  obs,                     \* what the user's handlers and the remote end of a
                           \* transport used on its own see: frames read,
                           \* outcomes of calls, what the handlers were given
  router,                  \* Bridge.taskReceivedHandler, the 'forward:<id>'
                           \* properties, forwards whose send is awaited, and
                           \* the frames written to peers
  api,                     \* the other calls on the Bridge: those suspended
                           \* at an await, how the latest ended, and how often
                           \* the peer handlers were invoked
  fn                       \* a function of the protocol or of the context
                           \* manager being applied: its arguments and, once
                           \* computed, its results

vars == <<mode, started, server, clientTransport, peers, nextPeer, conns,
          transports, pendingTasks, taskCalls, pendingContextRequests,
          ctxCalls, pc, owner, starts, startRes, stopRes, stopDuringStart,
          obs, router, api, fn>>

\* The whole state as one record, so that handlers compose as functions.
Cur ==
  [mode |-> mode, started |-> started, server |-> server,
   clientTransport |-> clientTransport, peers |-> peers, nextPeer |-> nextPeer,
   conns |-> conns, transports |-> transports, pendingTasks |-> pendingTasks,
   taskCalls |-> taskCalls, pendingContextRequests |-> pendingContextRequests,
   ctxCalls |-> ctxCalls, pc |-> pc, owner |-> owner, starts |-> starts,
   startRes |-> startRes, stopRes |-> stopRes,
   stopDuringStart |-> stopDuringStart, obs |-> obs, router |-> router,
   api |-> api, fn |-> fn]

Commit(s) ==
  /\ mode' = s.mode
  /\ started' = s.started
  /\ server' = s.server
  /\ clientTransport' = s.clientTransport
  /\ peers' = s.peers
  /\ nextPeer' = s.nextPeer
  /\ conns' = s.conns
  /\ transports' = s.transports
  /\ pendingTasks' = s.pendingTasks
  /\ taskCalls' = s.taskCalls
  /\ pendingContextRequests' = s.pendingContextRequests
  /\ ctxCalls' = s.ctxCalls
  /\ pc' = s.pc
  /\ owner' = s.owner
  /\ starts' = s.starts
  /\ startRes' = s.startRes
  /\ stopRes' = s.stopRes
  /\ stopDuringStart' = s.stopDuringStart
  /\ obs' = s.obs
  /\ router' = s.router
  /\ api' = s.api
  /\ fn' = s.fn

\* ------------------------------------------------------------- promises
\* A promise is settled by the first resolve/reject call; later calls on the
\* same promise are ignored by the runtime.
Settle(fut, outcome) == IF fut = "pending" THEN outcome ELSE fut

Rejections == {"rej_timeout", "rej_disconnect", "rej_shutdown", "rej_send",
               "rej_error"}

\* ------------------------------------------------------------ transport
\* A WebSocketTransport object as constructed (field initialisers).
NewTransport ==
  [state |-> "DISCONNECTED", ws |-> FALSE, sock |-> "none",
   reconnect |-> FALSE, reconnectAttempts |-> 0, reconnectTimer |-> FALSE,
   intentionalDisconnect |-> FALSE, messageQueue |-> <<>>, peerId |-> 0,
   connectPending |-> FALSE, closeTimer |-> FALSE, onceClose |-> FALSE,
   flushing |-> <<>>, inflight |-> 0, inflightOk |-> FALSE,
   heartbeatInterval |-> FALSE, heartbeatTimeout |-> FALSE,
   awaitingPong |-> FALSE, awaited |-> FALSE,
   stale |-> "none", stalePending |-> FALSE, staleAwaited |-> FALSE]

\* stopHeartbeat(): both timers are cleared.  (startHeartbeat() calls it and
\* then arms the interval that calls sendPing().)
stopHeartbeat(t) ==
  [t EXCEPT !.heartbeatInterval = FALSE, !.heartbeatTimeout = FALSE,
            !.awaitingPong = FALSE]

shouldReconnectIgnoresLimit(t) == t.reconnect

shouldReconnect(t) ==
  t.reconnect /\ t.reconnectAttempts < maxReconnectAttempts

scheduleReconnect(t) ==
  IF t.reconnectTimer THEN t
  ELSE [t EXCEPT !.state = "RECONNECTING",
                 !.reconnectAttempts = @ + 1,
                 !.reconnectTimer = TRUE]

\* establishConnection(): state CONNECTING and a new WebSocket(url) stored in
\* this.ws.  A socket that this.ws referred to and that has not closed stays
\* alive with its listeners attached (stale).  connectPending, stalePending:
\* the promise of the latest connect() call is pending and is the one that
\* the socket of this.ws, or the stale socket, settles.  awaited,
\* staleAwaited: the same for the promise that the callback of the reconnect
\* timer awaits.
establishConnection(t) ==
  LET alive == t.sock \in {"connecting", "open"}
  IN  [t EXCEPT !.state = "CONNECTING", !.ws = TRUE, !.sock = "connecting",
                !.stale = IF alive THEN t.sock ELSE @,
                !.stalePending = IF alive THEN t.connectPending ELSE @,
                !.staleAwaited = IF alive THEN t.awaited ELSE @,
                !.connectPending = FALSE, !.awaited = FALSE]

\* The catch block of the reconnect timer's callback, entered when the
\* promise of its establishConnection() call is rejected.
reconnectFailed(t) ==
  IF shouldReconnect(t) THEN scheduleReconnect(t)
  ELSE [t EXCEPT !.state = "DISCONNECTED"]

\* connect(config) on a transport that is not CONNECTED, with
\* config.reconnect = reconnect.
connect(t, reconnect) ==
  [establishConnection([t EXCEPT !.reconnect = reconnect,
                                 !.intentionalDisconnect = FALSE,
                                 !.reconnectAttempts = 0])
     EXCEPT !.connectPending = TRUE, !.stalePending = FALSE]

\* The ws 'close' listener installed by establishConnection, without the
\* notifyDisconnect() call (the Bridge's part of it is handleClientDisconnect).
closeHandler(t0) ==
  LET wasReconnecting == t0.state = "RECONNECTING"
      t == stopHeartbeat(t0)
  IN  IF ~t.intentionalDisconnect /\ shouldReconnect(t)
      THEN scheduleReconnect(t)
      ELSE IF ~wasReconnecting THEN [t EXCEPT !.state = "DISCONNECTED"]
      ELSE t

\* The ws 'error' listener: only a failure of the initial attempt rejects the
\* promise returned by establishConnection().
errorHandler(t) ==
  IF t.state = "CONNECTING" /\ t.reconnectAttempts = 0
  THEN [t EXCEPT !.state = "DISCONNECTED"]
  ELSE t

errorRejects(t) ==
  t.state = "CONNECTING" /\ t.reconnectAttempts = 0 /\ t.connectPending

\* onClose inside disconnect(): runs from the once('close') listener.
onClose(t) ==
  [t EXCEPT !.state = "DISCONNECTED", !.ws = FALSE,
            !.closeTimer = FALSE, !.onceClose = FALSE]

\* disconnect(): the synchronous part.  The result has closeTimer = TRUE when
\* the returned promise stays pending (waiting for 'close' or for 5 s).
disconnect(t) ==
  LET t1 == [stopHeartbeat(t) EXCEPT !.intentionalDisconnect = TRUE,
                                     !.reconnectTimer = FALSE,
                                     !.messageQueue = <<>>]
  IN  IF ~t1.ws \/ t1.state = "DISCONNECTED"
      THEN [t1 EXCEPT !.state = "DISCONNECTED"]
      ELSE IF t1.sock = "closed"
      THEN [t1 EXCEPT !.state = "DISCONNECTED", !.ws = FALSE]
      ELSE [t1 EXCEPT !.closeTimer = TRUE, !.onceClose = TRUE,
                      !.sock = CASE @ = "open" -> "closing"
                                 [] @ = "connecting" -> "aborting"
                                 [] OTHER -> @]

\* ------------------------------------------------- a transport on its own
\* What the user and the peer of a WebSocketTransport used without a Bridge
\* observe.  Messages are numbered by the send() call that carries them.
NewObs ==
  [wire |-> <<>>,          \* frames the peer's reader received, in order
   sends |-> 0,            \* send() calls made
   lastSend |-> "none",    \* how the latest send() call ended
   refused |-> {},         \* messages whose send() call failed
   queued |-> {},          \* messages send() put on the queue
   dropped |-> {},         \* queued messages a disconnect() call discarded
   errors |-> {},          \* errors the onError handlers were given
   handled |-> 0,          \* frames the onMessage handlers were given
   frames |-> 0,           \* frames received
   lastFrame |-> "none",   \* the latest frame received: what it held
   connects |-> 0,         \* connect() calls made
   connectRes |-> "none",  \* the promise of the latest connect() call
   disconnectCalls |-> 0,  \* onDisconnect handler calls since the last 'open'
   reconnecting |-> 0,     \* attempt last given to onReconnecting since then
   beat |-> "none"]        \* the latest heartbeat event since then

\* The slot of the transport that is used on its own.
Alone == 1

\* One iteration of the loop of flushMessageQueue(): sendImmediate() of the
\* next message of the local copy.  ws.send() on a socket that is not open
\* fails at once; on an open socket the loop waits for the write callback,
\* which will report success iff ok.  Result: the transport and the frames
\* that reached the peer.
flushNext(t, ok) ==
  IF t.flushing = <<>> THEN [t |-> t, wrote |-> <<>>]
  ELSE LET m == Head(t.flushing)
       IN  IF t.ws /\ t.state = "CONNECTED" /\ t.sock = "open"
           THEN [t |-> [t EXCEPT !.flushing = Tail(@), !.inflight = m,
                                 !.inflightOk = ok],
                 wrote |-> IF ok THEN <<m>> ELSE <<>>]
           ELSE [t |-> [t EXCEPT !.flushing = <<>>,
                                 !.messageQueue = <<m>> \o @],
                 wrote |-> <<>>]

\* flushMessageQueue() up to its first await: the queue is copied and
\* emptied, and the first message is written.
flushStart(t, ok) ==
  IF t.messageQueue = <<>> THEN [t |-> t, wrote |-> <<>>]
  ELSE flushNext([t EXCEPT !.flushing = t.messageQueue,
                           !.messageQueue = <<>>], ok)

flushResumeSkipsFailed(t, ok) == flushNext([t EXCEPT !.inflight = 0], ok)

\* flushMessageQueue() resumed by the write callback of the message in
\* flight: after an error that message alone is put back at the front of the
\* queue and the loop ends; otherwise the next message is written.
flushResume(t, ok) ==
  IF t.inflightOk
  THEN flushNext([t EXCEPT !.inflight = 0], ok)
  ELSE [t |-> [t EXCEPT !.inflight = 0, !.flushing = <<>>,
                        !.messageQueue = <<t.inflight>> \o @],
        wrote |-> <<>>]

\* ---------------------------------------------------------------- frames
\* An inbound frame as the 'message' listeners see it: text that is not
\* JSON, JSON that BridgeMessageSchema rejects, or a message.  `hops` is not
\* on the wire: it counts the Bridges that forwarded the message so far.
Frame(text, type, task, hops) ==
  [text |-> text, type |-> type, task |-> task, hops |-> hops,
   error |-> "none"]

BadJson   == Frame("bad_json", "none", 0, 0)
BadSchema == Frame("bad_schema", "none", 0, 0)
Notification == Frame("message", "notification", 0, 0)

\* safeDeserializeMessage(json): JSON.parse, then BridgeMessageSchema
\* .safeParse; the result object has success and either data or error.
safeDeserializeMessage(f) ==
  IF f.text = "bad_json"
  THEN [success |-> FALSE, error |-> "Invalid JSON", data |-> f]
  ELSE IF f.text = "bad_schema"
  THEN [success |-> FALSE, error |-> "schema", data |-> f]
  ELSE [success |-> TRUE, error |-> "none", data |-> f]

\* A task_delegate message carrying task t, and the response messages that
\* carry result.taskId = t: a peer's answer, and the answer a Bridge makes up
\* when it can neither handle nor forward the task.
TaskDelegate(t, hops) == Frame("message", "task_delegate", t, hops)
TaskResult(t)         == Frame("message", "response", t, 0)
TaskFailure(t, e)     == [TaskResult(t) EXCEPT !.error = e]
NoHandlerResult(t)    == TaskFailure(t, "No task handler registered on peer")

\* The messages of the exceptions a task handler throws.
HandlerErrors == {"Task processing failed"}

\* The routing state of a new Bridge.  held and last are not program state:
\* held is what each peer has been sent and has not answered yet, last is
\* the latest frame handled: its task, for a result the sender of the task
\* it answers (0: this Bridge's own delegateTask), the frames written to
\* peers while handling it, the error the frame carries, and the run of the
\* task handler it caused (the peer that sent the task, what the handler
\* threw, whether the write of the response was to succeed).
NoRun == [peer |-> 0, thrown |-> "none", ok |-> TRUE]

NewRouter ==
  [taskReceivedHandler |-> FALSE,
   forward  |-> [t \in TaskIds |-> 0],
   awaiting |-> <<>>,
   held     |-> {},
   last     |-> [task |-> 0, origin |-> 0, sent |-> {}, error |-> "none",
                 handler |-> NoRun]]

\* What became of a connection attempt: admitted to the 'connection' event,
\* or refused with the code verifyClient gave to its callback.
Admitted      == [accepted |-> TRUE, code |-> 0]
Refused(code) == [accepted |-> FALSE, code |-> code]

\* A new Bridge as its callers and its peer handlers see it: no
\* disconnectFromPeer() call is suspended, no handler has been invoked.
NewApi ==
  [dfp |-> {},             \* peers whose disconnectFromPeer() is suspended
   dfpCalls |-> 0,         \* disconnectFromPeer() calls made
   dfpPeer |-> 0,          \* the peer id given to the latest call
   dfpRes |-> "none",      \* how the latest call ended
   dfpOk |-> {},           \* peer ids for which a call succeeded
   bcastCalls |-> 0,       \* broadcast() / syncContext() calls made
   bcast |-> [res |-> "none", bad |-> {}, written |-> {}, failed |-> {}],
                           \* the latest of them: its promise, the peers
                           \* whose write was going to fail, the peers the
                           \* message was written or queued to, the peers
                           \* whose failure was logged
   peerDisconnected |-> [p \in PeerIds |-> 0],
   autoSyncIntervalId |-> FALSE,   \* the auto-sync interval is armed
   asyncProvider |-> FALSE,        \* its context provider returns a promise
                                   \* that is still pending when the tick
                                   \* callback suspends on it
   inflight |-> 0,         \* tick callbacks suspended on their provider
   ticks |-> 0,            \* firings of the interval
   autoSyncStarts |-> 0,   \* startAutoSync() calls made
   autoSyncSinceStop |-> FALSE,    \* startAutoSync() was called after the
                                   \* latest stop() call
   again |-> "none",       \* a start() called while an earlier call is at
                           \* its await, or after it: where it is suspended
                           \* or how it ended
   orphan |-> "none",      \* the listener this.server pointed at before that
                           \* call replaced it
   auth |-> FALSE,         \* config.listen.auth is there with a type other
                           \* than 'none': startServer() makes an
                           \* Authenticator and installs verifyClient
   attempts |-> 0,         \* connection attempts the listener received
   authEvals |-> 0,        \* authenticator.authenticate() calls
   rejected |-> 0,         \* attempts verifyClient refused
   lastAttempt |-> Admitted,       \* the latest attempt
   lastCredentials |-> TRUE,       \* what the authenticator made of it
   peerConnected |-> [p \in PeerIds |-> 0],
                           \* invocations of the peer-connected handlers
   now |-> 0,              \* what Date.now() returns
   lastActivity |-> [p \in PeerIds |-> 0]]
                           \* info.lastActivity of each peer, by peer id

\* --------------------------------------------------------------- bridge
PeerIdsOf(s) == {s.peers[k].id : k \in 1..Len(s.peers)}

hasPeer(s, p) == p \in PeerIdsOf(s)

PeerRec(s, p) == CHOOSE r \in {s.peers[k] : k \in 1..Len(s.peers)} : r.id = p

\* Map.delete(peerId) on the insertion-ordered registry.
peersDelete(s, p) == SelectSeq(s.peers, LAMBDA r : r.id # p)

\* A variant that does not compare pending.peerId with the peer's id.
notifyPeerDisconnectedFailsAll(s, p) ==
  LET hitTC == {s.pendingTasks[t] : t \in {u \in TaskIds : s.pendingTasks[u] # 0}}
  IN  [s EXCEPT
        !.pendingTasks = [t \in TaskIds |-> 0],
        !.taskCalls = [c \in DOMAIN @ |->
           IF c \in hitTC
           THEN [@[c] EXCEPT !.timer = FALSE,
                             !.fut = Settle(@, "rej_disconnect")]
           ELSE @[c]],
        !.pendingContextRequests = {},
        !.ctxCalls = [c \in DOMAIN @ |->
           IF c \in s.pendingContextRequests
           THEN [@[c] EXCEPT !.timer = FALSE,
                             !.fut = Settle(@, "rej_disconnect")]
           ELSE @[c]],
        !.api.peerDisconnected[p] = @ + 1]

\* notifyPeerDisconnected(peer): rejects and removes every pending task and
\* context request whose peerId is the peer's id, then calls the
\* peer-disconnected handlers.
notifyPeerDisconnected(s, p) ==
  LET hitT == {t \in TaskIds : s.pendingTasks[t] # 0
                               /\ s.taskCalls[s.pendingTasks[t]].peerId = p}
      hitTC == {s.pendingTasks[t] : t \in hitT}
      hitC == {c \in s.pendingContextRequests : s.ctxCalls[c].peerId = p}
  IN  [s EXCEPT
        !.pendingTasks = [t \in TaskIds |-> IF t \in hitT THEN 0 ELSE @[t]],
        !.taskCalls = [c \in DOMAIN @ |->
           IF c \in hitTC
           THEN [@[c] EXCEPT !.timer = FALSE,
                             !.fut = Settle(@, "rej_disconnect")]
           ELSE @[c]],
        !.pendingContextRequests = @ \ hitC,
        !.ctxCalls = [c \in DOMAIN @ |->
           IF c \in hitC
           THEN [@[c] EXCEPT !.timer = FALSE,
                             !.fut = Settle(@, "rej_disconnect")]
           ELSE @[c]],
        !.api.peerDisconnected[p] = @ + 1]

\* handleClientDisconnect(transport): looks the peer up by transport._peerId.
handleClientDisconnect(s, i) ==
  LET p == s.transports[i].peerId
  IN  IF p # 0 /\ hasPeer(s, p)
      THEN notifyPeerDisconnected([s EXCEPT !.peers = peersDelete(s, p)], p)
      ELSE s

\* The onDisconnect callback registered in connectToRemote: it passes
\* this.clientTransport as it is when the event fires; with null the
\* property read throws inside the callback and notifyDisconnect swallows it.
onDisconnectCallback(s) ==
  IF s.clientTransport = 0 THEN s
  ELSE handleClientDisconnect(s, s.clientTransport)

\* cleanup(), first part: reject every entry of both tables and clear them.
rejectAllPending(s) ==
  LET hitTC == {s.pendingTasks[t] : t \in {u \in TaskIds : s.pendingTasks[u] # 0}}
      hitC == s.pendingContextRequests
  IN  [s EXCEPT
        !.pendingTasks = [t \in TaskIds |-> 0],
        !.taskCalls = [c \in DOMAIN @ |->
           IF c \in hitTC
           THEN [@[c] EXCEPT !.timer = FALSE,
                             !.fut = Settle(@, "rej_shutdown")]
           ELSE @[c]],
        !.pendingContextRequests = {},
        !.ctxCalls = [c \in DOMAIN @ |->
           IF c \in hitC
           THEN [@[c] EXCEPT !.timer = FALSE,
                             !.fut = Settle(@, "rej_shutdown")]
           ELSE @[c]]]

\* cleanup() returns: stop() clears started, start() rethrows the error.
cleanupReturn(s) ==
  IF s.owner = "stop"
  THEN [s EXCEPT !.started = FALSE, !.stopRes = "done",
                 !.pc = "idle", !.owner = "none"]
  ELSE IF s.owner = "again"
  THEN [s EXCEPT !.api.again = "error", !.pc = "idle", !.owner = "none"]
  ELSE [s EXCEPT !.startRes = "error", !.pc = "idle", !.owner = "none"]

\* cleanup(), from peers.clear() on: close the listener and wait for its
\* callback.
cleanupServer(s) ==
  LET s1 == [s EXCEPT !.peers = <<>>]
  IN  IF s1.server # "null"
      THEN [s1 EXCEPT !.server = "closing", !.pc = "cleanup_server"]
      ELSE cleanupReturn(s1)

\* ws.close(1000, ...) on an accepted socket.
wsClose(c) == IF c = "open" THEN "closing" ELSE c

\* cleanup(), the loop over this.peers, resumed after the peer with id
\* `after` (ids grow with insertion, so id order is Map order).
RECURSIVE cleanupPeers(_, _)
cleanupPeers(s, after) ==
  LET rest == {p \in PeerIdsOf(s) : p > after}
  IN  IF rest = {} THEN cleanupServer(s)
      ELSE
        LET p == CHOOSE q \in rest : \A r \in rest : q <= r
            rec == PeerRec(s, p)
        IN  IF rec.transport = 0
            THEN cleanupPeers([s EXCEPT !.conns[p] = wsClose(@)], p)
            ELSE
              LET d == disconnect(s.transports[rec.transport])
                  s1 == [s EXCEPT !.transports[rec.transport] = d]
              IN  IF d.closeTimer
                  THEN [s1 EXCEPT !.pc = "cleanup_peer"]
                  ELSE cleanupPeers(s1, p)

\* cleanup() after `await this.clientTransport.disconnect()`.
cleanupAfterClient(s) ==
  cleanupPeers([s EXCEPT !.clientTransport = 0], 0)

\* stopAutoSync(): clears the interval if one is armed.
stopAutoSync(s) == [s EXCEPT !.api.autoSyncIntervalId = FALSE]

\* cleanup() from its first line to its first pending await.
cleanup(s, who) ==
  LET s1 == [rejectAllPending(stopAutoSync(s)) EXCEPT !.owner = who]
      i == s1.clientTransport
  IN  IF i # 0
      THEN LET d == disconnect(s1.transports[i])
               s2 == [s1 EXCEPT !.transports[i] = d]
           IN  IF d.closeTimer THEN [s2 EXCEPT !.pc = "cleanup_client"]
               ELSE cleanupAfterClient(s2)
      ELSE cleanupPeers(s1, 0)

\* The continuation of whichever await of cleanup() is waiting on transport i.
resumeCleanup(s, i) ==
  IF s.pc = "cleanup_client" /\ s.clientTransport = i
  THEN cleanupAfterClient(s)
  ELSE IF s.pc = "cleanup_peer"
  THEN LET ps == {p \in PeerIds : s.transports[i].peerId = p}
       IN  cleanupPeers(s, IF ps = {} THEN 0 ELSE CHOOSE p \in ps : TRUE)
  ELSE s

\* Variant of disconnectFromPeerDone that leaves the peer in the registry.
disconnectFromPeerKeepsPeer(s, p) ==
  [notifyPeerDisconnected(s, p)
     EXCEPT !.api.dfpRes = "ok", !.api.dfp = @ \ {p},
            !.api.dfpOk = @ \cup {p}]

\* disconnectFromPeer(peerId) from `this.peers.delete(peerId)` on.
disconnectFromPeerDone(s, p) ==
  [notifyPeerDisconnected([s EXCEPT !.peers = peersDelete(s, p)], p)
     EXCEPT !.api.dfpRes = "ok", !.api.dfp = @ \ {p},
            !.api.dfpOk = @ \cup {p}]

\* disconnectFromPeer(peerId) up to its first pending await.
disconnectFromPeer(s0, p) ==
  LET s == [s0 EXCEPT !.api.dfpCalls = @ + 1, !.api.dfpPeer = p]
  IN
  IF ~hasPeer(s, p) THEN [s EXCEPT !.api.dfpRes = "not_found"]
  ELSE
    LET rec == PeerRec(s, p)
    IN  IF rec.transport # 0
        THEN LET d == disconnect(s.transports[rec.transport])
                 s1 == [s EXCEPT !.transports[rec.transport] = d]
             IN  IF d.closeTimer
                 THEN [s1 EXCEPT !.api.dfp = @ \cup {p},
                                 !.api.dfpRes = "pending"]
                 ELSE disconnectFromPeerDone(s1, p)
        ELSE disconnectFromPeerDone([s EXCEPT !.conns[p] = wsClose(@)], p)

\* The continuation of a disconnectFromPeer() call that waits on transport i.
resumeDisconnectFromPeer(s, i) ==
  LET ps == {p \in s.api.dfp : s.transports[i].peerId = p}
  IN  IF ps = {} THEN s
      ELSE disconnectFromPeerDone(s, CHOOSE p \in ps : TRUE)

\* Everything that awaits the disconnect() promise of transport i.
resumeDisconnect(s, i) == resumeDisconnectFromPeer(resumeCleanup(s, i), i)

\* ------------------------------------------------------------ lifecycle
hasListen(m)  == m \in {"host", "peer"}
hasConnect(m) == m \in {"client", "peer"}

\* start() after both steps succeeded.
startDone(s) ==
  [s EXCEPT !.started = TRUE, !.startRes = "ok", !.pc = "idle"]

\* connectToRemote() up to `await this.clientTransport.connect(...)`: a new
\* WebSocketTransport in the slot of this start() call, connected with
\* reconnect: true.
connectToRemote(s) ==
  [s EXCEPT !.transports[s.starts] = connect(NewTransport, TRUE),
            !.clientTransport = s.starts,
            !.pc = "start_connect"]

\* notifyPeerConnected(peer): every registered handler is invoked once.
notifyPeerConnected(s, p) == [s EXCEPT !.api.peerConnected[p] = @ + 1]

\* connectToRemote() after connect() resolved: register the dialed peer.
connectToRemoteResolved(s, i) ==
  LET p == s.nextPeer + 1
  IN  notifyPeerConnected(
        [s EXCEPT !.nextPeer = p,
                  !.peers = Append(@, [id |-> p, transport |-> i]),
                  !.api.lastActivity[p] = s.api.now,
                  !.transports[i].peerId = p], p)

\* connectToRemote() after connect() rejected, and start()'s catch block.
connectToRemoteRejected(s) ==
  cleanup([s EXCEPT !.clientTransport = 0], "start")

\* start() after startServer() resolved.
afterStartServer(s) ==
  IF hasConnect(s.mode) THEN connectToRemote(s) ELSE startDone(s)

\* start() on a bridge that is not started, up to its first pending await.
StartCall ==
  /\ pc = "idle"
  /\ ~started
  /\ starts < MaxStarts
  /\ LET s0 == [Cur EXCEPT !.starts = @ + 1, !.startRes = "running",
                           !.stopRes = "none", !.stopDuringStart = FALSE]
     IN  Commit(IF hasListen(mode)
                THEN [s0 EXCEPT !.server = "starting", !.pc = "start_server"]
                ELSE connectToRemote(s0))

startInProgress(s) ==
  s.pc \in {"start_server", "start_connect"} \/ s.owner = "start"

\* Variant of stop() without the started check: cleanup() runs on every call.
StopCallNoGuard ==
  /\ pc = "idle"
  /\ Commit(cleanup([Cur EXCEPT !.stopDuringStart = @ \/ startInProgress(Cur)],
                    "stop"))

\* stop(): returns at once unless the bridge is started.
StopCall ==
  IF ~started
  THEN Commit([Cur EXCEPT !.stopRes = "noop",
                          !.api.autoSyncSinceStop = FALSE,
                          !.stopDuringStart = @ \/ startInProgress(Cur)])
  ELSE /\ pc = "idle"
       /\ Commit(cleanup([Cur EXCEPT !.api.autoSyncSinceStop = FALSE],
                         "stop"))

\* The listener's 'listening' event resolves startServer().  The listener is
\* the one this start() call created, which this.server no longer points at
\* once a later start() call has replaced it.
ServerListening ==
  /\ pc = "start_server"
  /\ Commit(afterStartServer(
              IF api.orphan = "starting"
              THEN [Cur EXCEPT !.api.orphan = "listening"]
              ELSE [Cur EXCEPT !.server = "listening"]))

\* start() called again on a Bridge whose first start() is suspended at
\* `await this.startServer()`, or has resolved.  `started` is set only after
\* the awaits, so the call made in between passes the check and runs
\* startServer(): this.server is replaced by a new listener.
StartCallAgain ==
  /\ hasListen(mode) /\ ~hasConnect(mode)
  /\ api.again = "none"
  /\ started \/ pc = "start_server"
  /\ Commit(IF started
            THEN [Cur EXCEPT !.api.again = "already_started"]
            ELSE [Cur EXCEPT !.api.orphan = Cur.server,
                             !.server = "starting",
                             !.api.again = "start_server"])

\* The event of the listener the second start() call created, after the
\* event of the first listener (created earlier on the same host) and
\* unless the listener was closed before it: bound, 'listening' resolves the
\* call; else 'error' rejects startServer() and the catch block of the call
\* runs cleanup().
SecondListener(bound) ==
  /\ api.again = "start_server"
  /\ server = "starting"
  /\ pc = "idle"
  /\ Commit(IF bound
            THEN [Cur EXCEPT !.server = "listening", !.started = TRUE,
                             !.api.again = "ok"]
            ELSE cleanup(Cur, "again"))

\* The listener's 'error' event rejects startServer(); start() cleans up.
ServerError ==
  /\ pc = "start_server"
  /\ Commit(cleanup(Cur, "start"))

\* The callback of server.close() in cleanup().
ServerClosed ==
  /\ pc = "cleanup_server"
  /\ Commit(cleanupReturn([Cur EXCEPT !.server = "null"]))

\* handleNewConnection(ws, request): the socket is registered under a fresh
\* peer id and the peer-connected handlers are told.
handleNewConnection(s) ==
  LET p == s.nextPeer + 1
  IN  notifyPeerConnected(
        [s EXCEPT !.nextPeer = p,
                  !.peers = Append(@, [id |-> p, transport |-> 0]),
                  !.api.lastActivity[p] = s.api.now,
                  !.conns[p] = "open"], p)

\* A variant that answers every attempt with callback(true).
verifyClientAdmitsAll(s, credentials) ==
  [s EXCEPT !.api.authEvals = @ + 1, !.api.lastAttempt = Admitted]

\* verifyClient(info, callback) with an authenticator: one authenticate()
\* call; credentials: what it returns in result.success.
verifyClient(s, credentials) ==
  [s EXCEPT !.api.authEvals = @ + 1,
            !.api.lastAttempt = IF credentials THEN Admitted
                                ELSE Refused(4001)]

\* The listener's handling of one upgrade request: verifyClient if the
\* server was given one, then for an attempt that passed the 'connection'
\* event; a refused attempt gets no socket.
upgrade(s0, credentials) ==
  LET s == [s0 EXCEPT !.api.attempts = @ + 1,
                      !.api.lastCredentials = ~s0.api.auth \/ credentials]
      v == IF s.api.auth THEN verifyClient(s, credentials)
           ELSE [s EXCEPT !.api.lastAttempt = Admitted]
  IN  IF v.api.lastAttempt.accepted THEN handleNewConnection(v)
      ELSE [v EXCEPT !.api.rejected = @ + 1]

AcceptConnection ==
  \E credentials \in BOOLEAN :
     /\ server = "listening" \/ api.orphan = "listening"
     /\ IF api.auth /\ ~credentials THEN api.rejected < MaxRejected
        ELSE nextPeer < MaxPeers
     /\ Commit(upgrade(Cur, credentials))

\* The 'close' listener of an accepted socket (remote close, or the end of a
\* close this side started).
WsPeerClose(p) ==
  /\ conns[p] \in {"open", "closing"}
  /\ Commit(notifyPeerDisconnected(
              [Cur EXCEPT !.conns[p] = "closed",
                          !.peers = peersDelete(Cur, p)], p))

\* -------------------------------------------------- transport socket events
\* flushMessageQueue(): the queue is emptied and its messages are written in
\* order; if the write of message k+1 fails it alone is put back and the loop
\* stops (k = Len(q): every write succeeded).
flushMessageQueue(q, k) == IF k < Len(q) THEN <<q[k + 1]>> ELSE <<>>

\* 'open' on the transport's socket; resolves the initial connect() if one
\* is awaited, and with it connectToRemote() and start().
SockOpen(i) ==
  /\ transports[i].sock = "connecting"
  /\ \E k \in 0..Len(transports[i].messageQueue) :
     LET t == transports[i]
         t1 == [stopHeartbeat(t)
                  EXCEPT !.heartbeatInterval = TRUE,
                         !.state = "CONNECTED", !.reconnectAttempts = 0,
                         !.sock = "open",
                         !.messageQueue = flushMessageQueue(@, k),
                         !.connectPending = FALSE, !.awaited = FALSE]
         s1 == [Cur EXCEPT !.transports[i] = t1]
     IN  IF t.connectPending /\ pc = "start_connect" /\ clientTransport = i
         THEN /\ nextPeer < MaxPeers
              /\ Commit(startDone(connectToRemoteResolved(s1, i)))
         ELSE Commit(s1)

\* A failed connection attempt: ws emits 'error' and then 'close'.
SockFail(i) ==
  /\ transports[i].sock \in {"connecting", "aborting"}
  /\ LET t == transports[i]
         rejects == errorRejects(t)
         t1 == closeHandler(errorHandler(t))
         t2 == [t1 EXCEPT !.sock = "closed",
                          !.connectPending = IF rejects THEN FALSE ELSE @]
         t3 == IF t2.onceClose THEN onClose(t2) ELSE t2
         s1 == [Cur EXCEPT !.transports[i] = t3]
         s2 == IF rejects /\ pc = "start_connect" /\ clientTransport = i
               THEN connectToRemoteRejected(s1)
               ELSE s1
     IN  Commit(IF t.closeTimer THEN resumeDisconnect(s2, i) ELSE s2)

\* 'close' on a socket that had opened.
SockClose(i) ==
  /\ transports[i].sock \in {"open", "closing"}
  /\ LET t == transports[i]
         wasConnected == t.state = "CONNECTED"
         s1 == IF wasConnected THEN onDisconnectCallback(Cur) ELSE Cur
         t1 == [closeHandler(t) EXCEPT !.sock = "closed"]
         t2 == IF t1.onceClose THEN onClose(t1) ELSE t1
         s2 == [s1 EXCEPT !.transports[i] = t2]
     IN  Commit(IF t.closeTimer THEN resumeDisconnect(s2, i) ELSE s2)

\* The reconnect timer set by scheduleReconnect fires.  (At most one socket
\* that this.ws no longer refers to is kept alive.)
ReconnectTimer(i) ==
  /\ transports[i].reconnectTimer
  /\ transports[i].stale = "none" \/ transports[i].sock \notin {"connecting", "open"}
  /\ Commit([Cur EXCEPT !.transports[i] =
              [establishConnection([@ EXCEPT !.reconnectTimer = FALSE])
                 EXCEPT !.awaited = TRUE]])

\* The 5 s timer of disconnect() fires before the socket reported 'close'.
DisconnectTimeout(i) ==
  /\ transports[i].closeTimer
  /\ Commit(resumeDisconnect(
       [Cur EXCEPT !.transports[i] =
          [@ EXCEPT !.state = "DISCONNECTED", !.ws = FALSE,
                    !.closeTimer = FALSE]], i))

\* ---------------------------------------------------------- correlation
\* transport.send(message): which branch the call takes.
sendMode(t) ==
  IF t.ws /\ t.state = "CONNECTED" THEN "immediate"
  ELSE IF shouldReconnect(t) /\ t.state \in {"RECONNECTING", "DISCONNECTED"}
  THEN "queue"
  ELSE "throw"

\* sendToPeer(peerId, message): the ways the call can end.  "ok": written;
\* "queued": pushed on the transport's queue; "fail_now": the promise rejects
\* before any other event (peer unknown, not connected, socket not open);
\* "fail_later": the write callback reports an error in a later turn.
SendOutcomes(s, p) ==
  IF ~hasPeer(s, p) THEN {"fail_now"}
  ELSE LET rec == PeerRec(s, p)
       IN  IF rec.transport # 0
           THEN LET t == s.transports[rec.transport]
                IN  CASE sendMode(t) = "immediate" ->
                           IF t.sock = "open" THEN {"ok", "fail_later"}
                           ELSE {"fail_now"}
                      [] sendMode(t) = "queue" -> {"queued"}
                      [] OTHER -> {"fail_now"}
           ELSE IF s.conns[p] = "open" THEN {"ok", "fail_later"}
                ELSE {"fail_now"}

\* The effect of a queued send on the transport of peer p.
queueMessage(s, p, msg) ==
  LET i == PeerRec(s, p).transport
  IN  [s EXCEPT !.transports[i].messageQueue = Append(@, msg)]

\* sendToPeer(peerId, frame) whose failure is only logged; ok: the write,
\* if one is made on an open socket, succeeds.
respond(s, p, f, ok) ==
  LET outs == SendOutcomes(s, p)
  IN  IF "queued" \in outs THEN queueMessage(s, p, f)
      ELSE IF "ok" \in outs /\ ok
      THEN [s EXCEPT !.router.last.sent = @ \cup {[to |-> p, frame |-> f]}]
      ELSE s

\* The catch callback of delegateTask's sendToPeer(): clear the call's timer,
\* delete the entry stored under the task id, reject the call's promise.
taskSendFailed(s, c) ==
  [s EXCEPT !.pendingTasks[s.taskCalls[c].taskId] = 0,
            !.taskCalls[c] = [@ EXCEPT !.timer = FALSE, !.sendFailing = FALSE,
                                       !.fut = Settle(@, "rej_send")]]

\* delegateTask(task, peerId) with task.id = t, once the peer checks passed.
delegateTask(s, t, p, out) ==
  LET c == Len(s.taskCalls) + 1
      s1 == [s EXCEPT
               !.taskCalls = Append(@, [taskId |-> t, peerId |-> p,
                                        timer |-> TRUE,
                                        sendFailing |-> (out = "fail_later"),
                                        fut |-> "pending", result |-> 0,
                                        error |-> "none"]),
               !.pendingTasks[t] = c]
  IN  CASE out = "fail_now" -> taskSendFailed(s1, c)
        [] out = "queued" -> queueMessage(s1, p, [kind |-> "task", id |-> t])
        [] OTHER -> s1

DelegateTask(t, p) ==
  /\ Len(taskCalls) < MaxTaskCalls
  /\ hasPeer(Cur, p)
  /\ \E out \in SendOutcomes(Cur, p) : Commit(delegateTask(Cur, t, p, out))

\* The write callback of a task_delegate send reports an error.
TaskSendError(c) ==
  /\ c \in DOMAIN taskCalls
  /\ taskCalls[c].sendFailing
  /\ Commit(taskSendFailed(Cur, c))

\* The timeout callback set by delegateTask call c.
taskTimeout(s, c) ==
  LET t == s.taskCalls[c].taskId
  IN  IF s.pendingTasks[t] # 0
      THEN [s EXCEPT !.pendingTasks[t] = 0,
                     !.taskCalls[c] = [@ EXCEPT !.timer = FALSE,
                                        !.fut = Settle(@, "rej_timeout")]]
      ELSE [s EXCEPT !.taskCalls[c].timer = FALSE]

TaskTimeout(c) ==
  /\ c \in DOMAIN taskCalls
  /\ taskCalls[c].timer
  /\ Commit(taskTimeout(Cur, c))

\* Some socket whose 'message' listener reaches handleMessage with a peer id.
canReceive(s) ==
  \/ \E p \in PeerIds : s.conns[p] \in {"open", "closing"}
  \/ /\ s.clientTransport # 0
     /\ s.transports[s.clientTransport].peerId # 0
     /\ \E i \in Slots : s.transports[i].sock \in {"open", "closing"}

\* Variant of handleTaskResponse that completes the oldest pending entry,
\* whatever task id the response carries.
handleTaskResponseOldestPending(s, m, ok) ==
  LET t == m.task
      live == {u \in TaskIds : s.pendingTasks[u] # 0}
      u == CHOOSE v \in live : \A w \in live : s.pendingTasks[v] <= s.pendingTasks[w]
      c == s.pendingTasks[u]
  IN  IF live = {} THEN s
      ELSE [s EXCEPT !.pendingTasks[u] = 0,
                     !.taskCalls[c] = [@ EXCEPT !.timer = FALSE,
                                        !.result = IF s.taskCalls[c].fut = "pending"
                                                   THEN t ELSE @,
                                        !.error = IF s.taskCalls[c].fut = "pending"
                                                  THEN m.error ELSE @,
                                        !.fut = Settle(@, "resolved")]]

\* handleTaskResponse(message); ok: the write that relays a forwarded
\* task's response succeeds.
handleTaskResponse(s, m, ok) ==
  LET t == m.task
      originalSender == s.router.forward[t]
      c == s.pendingTasks[t]
  IN  IF originalSender # 0
      THEN respond([s EXCEPT !.router.forward[t] = 0],
                   originalSender, m, ok)
      ELSE IF c = 0 THEN s
      ELSE [s EXCEPT !.pendingTasks[t] = 0,
                     !.taskCalls[c] = [@ EXCEPT !.timer = FALSE,
                                        !.result = IF s.taskCalls[c].fut = "pending"
                                                   THEN t ELSE @,
                                        !.error = IF s.taskCalls[c].fut = "pending"
                                                  THEN m.error ELSE @,
                                        !.fut = Settle(@, "resolved")]]

TaskResponse(t) ==
  /\ canReceive(Cur)
  /\ Commit(handleTaskResponse(Cur, TaskResult(t), TRUE))

\* Variant of ctxSendFailed that rejects the promise but leaves the entry in
\* the pending-context table.
ctxSendFailedKeepsEntry(s, c) ==
  [s EXCEPT !.ctxCalls[c] = [@ EXCEPT !.timer = FALSE, !.sendFailing = FALSE,
                                      !.fut = Settle(@, "rej_send")]]

\* The catch callback of requestContext's sendToPeer().
ctxSendFailed(s, c) ==
  [s EXCEPT !.pendingContextRequests = @ \ {c},
            !.ctxCalls[c] = [@ EXCEPT !.timer = FALSE, !.sendFailing = FALSE,
                                      !.fut = Settle(@, "rej_send")]]

\* requestContext(query, peerId): the request message gets a fresh id, which
\* is the call's index.
requestContext(s, p, out) ==
  LET c == Len(s.ctxCalls) + 1
      s1 == [s EXCEPT
               !.ctxCalls = Append(@, [peerId |-> p, timer |-> TRUE,
                                       sendFailing |-> (out = "fail_later"),
                                       fut |-> "pending"]),
               !.pendingContextRequests = @ \cup {c}]
  IN  CASE out = "fail_now" -> ctxSendFailed(s1, c)
        [] out = "queued" -> queueMessage(s1, p, [kind |-> "ctx", id |-> c])
        [] OTHER -> s1

RequestContext(p) ==
  /\ Len(ctxCalls) < MaxCtxCalls
  /\ hasPeer(Cur, p)
  /\ \E out \in SendOutcomes(Cur, p) : Commit(requestContext(Cur, p, out))

CtxSendError(c) ==
  /\ c \in DOMAIN ctxCalls
  /\ ctxCalls[c].sendFailing
  /\ Commit(ctxSendFailed(Cur, c))

\* The timeout callback set by requestContext call c.
ctxTimeout(s, c) ==
  IF c \in s.pendingContextRequests
  THEN [s EXCEPT !.pendingContextRequests = @ \ {c},
                 !.ctxCalls[c] = [@ EXCEPT !.timer = FALSE,
                                           !.fut = Settle(@, "rej_timeout")]]
  ELSE [s EXCEPT !.ctxCalls[c].timer = FALSE]

CtxTimeout(c) ==
  /\ c \in DOMAIN ctxCalls
  /\ ctxCalls[c].timer
  /\ Commit(ctxTimeout(Cur, c))

\* handleContextResponse(message) with context.variables.requestId = c and
\* context.variables.error set iff err.
handleContextResponse(s, c, err) ==
  IF c \notin s.pendingContextRequests THEN s
  ELSE [s EXCEPT !.pendingContextRequests = @ \ {c},
                 !.ctxCalls[c] = [@ EXCEPT !.timer = FALSE,
                    !.fut = Settle(@, IF err THEN "rej_error" ELSE "resolved")]]

CtxResponse(c, err) ==
  /\ c \in DOMAIN ctxCalls
  /\ canReceive(Cur)
  /\ Commit(handleContextResponse(Cur, c, err))

\* ---------------------------------------- a transport used on its own
Range(q) == {q[k] : k \in 1..Len(q)}

AloneCommit(t, o) == Commit([Cur EXCEPT !.transports[Alone] = t, !.obs = o])

\* connect({reconnect: r, ...}).  Restricted to a transport with no socket
\* and no timer of an earlier connection still alive.
TransportConnect(r) ==
  LET t == transports[Alone]
  IN  /\ obs.connects < MaxConnects
      /\ t.state # "CONNECTED"
      /\ t.sock \in {"none", "closed"}
      /\ ~t.reconnectTimer /\ ~t.closeTimer /\ t.inflight = 0
      /\ AloneCommit(connect(t, r),
                     [obs EXCEPT !.connects = @ + 1, !.connectRes = "pending"])

\* send(message); ok: the write, if one is made on an open socket, succeeds.
TransportSend(ok) ==
  LET t == transports[Alone]
      m == obs.sends + 1
      o == [obs EXCEPT !.sends = m]
  IN  /\ obs.sends < MaxSends
      /\ CASE sendMode(t) = "immediate" ->
                IF t.sock = "open" /\ ok
                THEN AloneCommit(t, [o EXCEPT !.lastSend = "written",
                                              !.wire = Append(@, m)])
                ELSE AloneCommit(t, [o EXCEPT !.lastSend = "write_failed",
                                              !.refused = @ \cup {m}])
            [] sendMode(t) = "queue" ->
                AloneCommit([t EXCEPT !.messageQueue = Append(@, m)],
                            [o EXCEPT !.lastSend = "queued",
                                      !.queued = @ \cup {m}])
            [] OTHER ->
                AloneCommit(t, [o EXCEPT !.lastSend = "not_connected",
                                         !.refused = @ \cup {m}])

\* disconnect(), while no earlier disconnect() is still waiting.
TransportDisconnect ==
  LET t == transports[Alone]
  IN  /\ ~t.closeTimer
      /\ AloneCommit(disconnect(t),
                     [obs EXCEPT !.dropped = @ \cup Range(t.messageQueue)])

\* 'open': the open listener of establishConnection().
WsOpen(ok) ==
  LET t == transports[Alone]
      t1 == [stopHeartbeat(t)
               EXCEPT !.heartbeatInterval = TRUE,
                      !.state = "CONNECTED", !.reconnectAttempts = 0,
                      !.sock = "open", !.connectPending = FALSE,
                      !.awaited = FALSE]
      f == flushStart(t1, ok)
  IN  /\ t.sock = "connecting"
      /\ AloneCommit(f.t,
            [obs EXCEPT !.wire = @ \o f.wrote,
                        !.connectRes = IF t.connectPending THEN "ok" ELSE @,
                        !.disconnectCalls = 0, !.reconnecting = 0,
                        !.beat = "none"])

\* What the handlers registered with onDisconnect() and onReconnecting() are
\* given by the 'close' listener that takes the transport from t to t1:
\* notifyDisconnect() runs iff the state was CONNECTED, and
\* scheduleReconnect() passes the new attempt number when it arms the timer.
closeNotifies(o, t, t1) ==
  [o EXCEPT !.disconnectCalls = IF t.state = "CONNECTED" THEN @ + 1 ELSE @,
            !.reconnecting = IF t1.reconnectTimer /\ ~t.reconnectTimer
                             THEN t1.reconnectAttempts ELSE @]

\* A failed or aborted connection attempt: 'error', then 'close'.  The error
\* listener rejects the promise of establishConnection() while the state is
\* CONNECTING and reconnectAttempts is 0, or else notifies onError.  A
\* rejected promise that the reconnect timer's callback awaits runs its
\* catch block (caught) once both listeners have returned.
WsFail ==
  LET t == transports[Alone]
      rejects == errorRejects(t)
      notifies == ~(t.state = "CONNECTING" /\ t.reconnectAttempts = 0)
      caught == ~notifies /\ t.awaited
      t1 == closeHandler(errorHandler(t))
      t2 == [t1 EXCEPT !.sock = "closed",
                       !.connectPending = IF rejects THEN FALSE ELSE @,
                       !.awaited = IF caught THEN FALSE ELSE @]
      t3 == IF t2.onceClose THEN onClose(t2) ELSE t2
      t4 == IF caught THEN reconnectFailed(t3) ELSE t3
      o1 == closeNotifies(closeNotifies(obs, errorHandler(t), t1),
                          [t3 EXCEPT !.state = "DISCONNECTED"], t4)
  IN  /\ t.sock \in {"connecting", "aborting"}
      /\ AloneCommit(t4,
            [o1 EXCEPT !.errors = (IF notifies THEN @ \cup {"socket"} ELSE @)
                                    \cup IF caught /\ ~shouldReconnect(t3)
                                         THEN {"max_reconnects"} ELSE {},
                       !.connectRes = IF rejects THEN "error" ELSE @])

\* connect({reconnect: r, ...}) called while a socket or the reconnect timer
\* of an earlier connection is still alive, but not while a socket that
\* disconnect() closed is still closing.  When the state is CONNECTED the
\* call throws 'Already connected'.
TransportConnectAgain(r) ==
  LET t == transports[Alone]
  IN  /\ obs.connects < MaxConnects
      /\ ~t.closeTimer /\ ~t.onceClose /\ t.inflight = 0
      /\ t.sock \in {"none", "closed", "connecting", "open"}
      /\ t.state = "CONNECTED" \/ t.sock \in {"connecting", "open"}
                               \/ t.reconnectTimer
      /\ t.stale = "none" \/ t.sock \notin {"connecting", "open"}
      /\ IF t.state = "CONNECTED"
         THEN AloneCommit(t, [obs EXCEPT !.connects = @ + 1,
                                         !.connectRes = "already_connected"])
         ELSE AloneCommit(connect(t, r),
                          [obs EXCEPT !.connects = @ + 1,
                                      !.connectRes = "pending"])

\* An event of the stale socket: the listeners that establishConnection()
\* attached to it run on the transport as they do for the socket of this.ws,
\* except that disconnect() never attached its once('close') listener to it.
StaleSocket(e, ok) ==
  LET t == transports[Alone]
      opened == [stopHeartbeat(t)
                   EXCEPT !.heartbeatInterval = TRUE,
                          !.state = "CONNECTED", !.reconnectAttempts = 0,
                          !.stale = "open", !.stalePending = FALSE,
                          !.staleAwaited = FALSE]
      f == flushStart(opened, ok)
      gone(u) == [u EXCEPT !.stale = "none", !.stalePending = FALSE,
                           !.staleAwaited = FALSE]
      first == t.state = "CONNECTING" /\ t.reconnectAttempts = 0
      t1 == gone(closeHandler(errorHandler(t)))
      t2 == IF first /\ t.staleAwaited THEN reconnectFailed(t1) ELSE t1
      o1 == closeNotifies(closeNotifies(obs, errorHandler(t), t1),
                          [t1 EXCEPT !.state = "DISCONNECTED"], t2)
  IN  /\ t.inflight = 0
      /\ CASE e = "open" ->
                /\ t.stale = "connecting"
                /\ AloneCommit(f.t,
                      [obs EXCEPT !.wire = @ \o f.wrote,
                                  !.connectRes = IF t.stalePending THEN "ok"
                                                 ELSE @,
                                  !.disconnectCalls = 0, !.reconnecting = 0,
                                  !.beat = "none"])
           [] e = "error" ->
                /\ t.stale = "connecting"
                /\ AloneCommit(t2,
                      [o1 EXCEPT !.errors =
                                   (IF first THEN @ ELSE @ \cup {"socket"})
                                     \cup IF first /\ t.staleAwaited
                                             /\ ~shouldReconnect(t1)
                                          THEN {"max_reconnects"} ELSE {},
                                 !.connectRes = IF first /\ t.stalePending
                                                THEN "error" ELSE @])
           [] e = "close" ->
                /\ t.stale = "open"
                /\ AloneCommit(gone(closeHandler(t)),
                               closeNotifies(obs, t, closeHandler(t)))

\* 'close' of a socket that had opened; the callbacks of its writes have
\* run by then.
WsClose ==
  LET t == transports[Alone]
      t1 == [closeHandler(t) EXCEPT !.sock = "closed"]
      t2 == IF t1.onceClose THEN onClose(t1) ELSE t1
  IN  /\ t.sock \in {"open", "closing", "terminated"}
      /\ t.inflight = 0
      /\ AloneCommit(t2, closeNotifies(obs, t, t1))

\* The write callback of the message the flush loop is waiting for; ok: the
\* next write, if one is made, succeeds.
WsWriteCallback(ok) ==
  LET t == transports[Alone]
      f == flushResume(t, ok)
  IN  /\ t.inflight # 0
      /\ AloneCommit(f.t, [obs EXCEPT !.wire = @ \o f.wrote])

\* handleHeartbeatTimeout(): the timeout is cleared and the socket is
\* terminated; its 'close' event follows in a later turn.
handleHeartbeatTimeout(t) ==
  [t EXCEPT !.awaitingPong = FALSE, !.heartbeatTimeout = FALSE,
            !.sock = IF t.ws /\ @ \in {"open", "closing"}
                     THEN "terminated" ELSE @]

sendPingIgnoresUnanswered(t) ==
  IF ~t.ws \/ t.state # "CONNECTED" \/ t.awaitingPong THEN t
  ELSE [t EXCEPT !.awaitingPong = TRUE, !.heartbeatTimeout = TRUE]

\* sendPing(), called by the heartbeat interval.
sendPing(t) ==
  IF ~t.ws \/ t.state # "CONNECTED" THEN t
  ELSE IF t.awaitingPong THEN handleHeartbeatTimeout(t)
  ELSE [t EXCEPT !.awaitingPong = TRUE, !.heartbeatTimeout = TRUE]

\* The heartbeat interval fires.
HeartbeatInterval ==
  LET t == transports[Alone]
  IN  /\ t.heartbeatInterval
      /\ t.inflight = 0
      /\ AloneCommit(sendPing(t),
            [obs EXCEPT !.beat = IF ~t.ws \/ t.state # "CONNECTED" THEN @
                                 ELSE IF t.awaitingPong THEN "unanswered"
                                 ELSE "ping"])

\* 'pong': handlePong().  The peer answers a ping that reached it.
WsPong ==
  LET t == transports[Alone]
  IN  /\ t.sock = "open"
      /\ t.awaitingPong
      /\ AloneCommit([t EXCEPT !.awaitingPong = FALSE,
                               !.heartbeatTimeout = FALSE],
                     [obs EXCEPT !.beat = "pong"])

\* The timer armed by sendPing() fires HEARTBEAT_TIMEOUT after the ping.
HeartbeatTimeout ==
  LET t == transports[Alone]
      t1 == [t EXCEPT !.heartbeatTimeout = FALSE]
  IN  /\ t.heartbeatTimeout
      /\ t.inflight = 0
      /\ AloneCommit(IF t.awaitingPong THEN handleHeartbeatTimeout(t1)
                     ELSE t1,
                     [obs EXCEPT !.beat = IF t.awaitingPong THEN "timeout"
                                          ELSE @])

\* handleIncomingMessage(data) of a transport whose user registered one
\* message handler and one error handler: the effect on what the user sees.
handleIncomingMessage(o, f) ==
  LET result == safeDeserializeMessage(f)
      o1 == [o EXCEPT !.frames = @ + 1, !.lastFrame = f.text]
  IN  IF ~result.success
      THEN [o1 EXCEPT !.errors = @ \cup {"invalid_message"}]
      ELSE [o1 EXCEPT !.handled = @ + 1]

\* The 'message' listener of the transport's socket.
TransportFrame(f) ==
  /\ obs.frames < MaxFrames
  /\ transports[Alone].sock \in {"open", "closing"}
  /\ AloneCommit(transports[Alone], handleIncomingMessage(obs, f))

\* --------------------------------------------------------------- routing
\* onTaskReceived(handler).
OnTaskReceived ==
  /\ ~router.taskReceivedHandler
  /\ Commit([Cur EXCEPT !.router.taskReceivedHandler = TRUE])

\* Array.from(this.peers.keys()).filter(id => id !== peerId)
otherPeers(s, p) == SelectSeq(s.peers, LAMBDA r : r.id # p)

\* A variant whose catch block reports the handler's exception as a result.
handlerResponseSwallowsError(t, ex) == TaskResult(t)

\* The response to a task the registered handler was run for: the handler's
\* result with the task's id, or from the catch block a failure whose error
\* is the message of what the handler threw.
handlerResponse(t, ex) ==
  IF ex = "none" THEN TaskResult(t) ELSE TaskFailure(t, ex)

\* handleTaskDelegate(message, peerId) up to its first pending await; ok: the
\* write it makes, if it makes one on an open socket, succeeds.  A handler,
\* when registered, returns a settled promise: fulfilled with a result
\* (ex = "none") or rejected with an exception whose message is ex.  When
\* the write of a result fails, the failure response the catch block then
\* writes to the same socket fails with it.
handleTaskDelegate(s, m, p, ok, ex) ==
  LET t == m.task
      others == otherPeers(s, p)
      target == Head(others).id
      outs == SendOutcomes(s, target)
      fwd == TaskDelegate(t, m.hops + 1)
      refuse == respond(s, p, NoHandlerResult(t), ok)
  IN  IF s.router.taskReceivedHandler
      THEN respond([s EXCEPT !.router.last.handler =
                                [peer |-> p, thrown |-> ex, ok |-> ok]], p,
                   handlerResponse(t, ex), ok)
      ELSE IF others = <<>> THEN refuse
      ELSE IF "queued" \in outs
      THEN [queueMessage(s, target, fwd) EXCEPT !.router.forward[t] = p]
      ELSE IF "ok" \in outs
      THEN [s EXCEPT
             !.router.awaiting =
                Append(@, [task |-> t, from |-> p, to |-> target, ok |-> ok]),
             !.router.last.sent =
                IF ok THEN @ \cup {[to |-> target, frame |-> fwd]} ELSE @]
      ELSE refuse

\* handleTaskDelegate resumed by the write callback of the k-th awaited
\* forward: the forward key is set, or after an error the sender is told
\* that no handler is registered (ok: that write succeeds).  The callback
\* of a write runs before anything the reader of the frame sends back can
\* arrive, so the target holds the task from here on.
forwardSettled(s, k, ok) ==
  LET a == s.router.awaiting[k]
      s1 == [s EXCEPT !.router.awaiting =
                         SubSeq(@, 1, k - 1) \o SubSeq(@, k + 1, Len(@)),
                      !.router.last = [task |-> a.task, origin |-> 0,
                                       sent |-> {}, error |-> "none",
                                       handler |-> NoRun]]
  IN  IF a.ok
      THEN [s1 EXCEPT !.router.forward[a.task] = a.from,
                      !.router.held = @ \cup {[peer |-> a.to, task |-> a.task,
                                               origin |-> a.from]}]
      ELSE respond(s1, a.from, NoHandlerResult(a.task), ok)

ForwardCallback(k, ok) ==
  /\ k \in DOMAIN router.awaiting
  /\ Commit(forwardSettled(Cur, k, ok))

\* handleMessage(message, source, peerId) for the message types modelled:
\* task_delegate, response with result.taskId, and types that go to the
\* onMessage handlers.
handleMessage(s0, m, p, ok, ex) ==
  LET s == IF hasPeer(s0, p)
           THEN [s0 EXCEPT !.api.lastActivity[p] = s0.api.now] ELSE s0
  IN  IF m.type = "task_delegate" THEN handleTaskDelegate(s, m, p, ok, ex)
      ELSE IF m.type = "response"
      THEN handleTaskResponse(s, m, ok)
      ELSE [s EXCEPT !.obs.handled = @ + 1]

\* A variant that leaves lastActivity as it was.
onPeerMessageKeepsActivity(s, p, f, ok, ex) ==
  LET result == safeDeserializeMessage(f)
      s1 == [s EXCEPT !.obs.frames = @ + 1, !.obs.lastFrame = f.text]
  IN  IF result.success
      THEN [handleMessage(s1, result.data, p, ok, ex)
              EXCEPT !.api.lastActivity = s.api.lastActivity]
      ELSE s1

\* The 'message' listener handleNewConnection() puts on an accepted socket:
\* a frame that does not deserialize is logged and dropped; one that does
\* sets the peer's lastActivity and goes to handleMessage().
onPeerMessage(s, p, f, ok, ex) ==
  LET result == safeDeserializeMessage(f)
      s1 == [s EXCEPT !.obs.frames = @ + 1, !.obs.lastFrame = f.text]
  IN  IF result.success
      THEN handleMessage([s1 EXCEPT !.api.lastActivity[p] = s.api.now],
                         result.data, p, ok, ex)
      ELSE s1

\* What a peer that runs this protocol may send: anything at all as raw
\* text, a notification, a task of its own or one it forwards, the result
\* of a task it was sent and has not answered, and the failure of a task
\* this Bridge delegated to it.
PeerFrames(s, p) ==
  {BadJson, BadSchema, Notification}
    \cup {TaskDelegate(t, h) : t \in TaskIds, h \in {0, 1}}
    \cup {TaskResult(h.task) : h \in {x \in s.router.held : x.peer = p}}
    \cup {TaskResult(s.taskCalls[c].taskId) :
             c \in {d \in DOMAIN s.taskCalls : s.taskCalls[d].peerId = p}}
    \cup {TaskFailure(s.taskCalls[c].taskId, e) :
             c \in {d \in DOMAIN s.taskCalls : s.taskCalls[d].peerId = p},
             e \in HandlerErrors}

\* Peer p's socket delivers frame f.  When f is the result of a task, origin
\* says which of the tasks p was sent it answers (0: one this Bridge
\* delegated itself).
PeerMessage(p, f, origin, ok, ex) ==
  LET answered == [peer |-> p, task |-> f.task, origin |-> origin]
      isResult == f.type = "response"
      s0 == [Cur EXCEPT
               !.router.last = [task |-> f.task,
                                origin |-> IF isResult THEN origin ELSE 0,
                                sent |-> {}, error |-> f.error,
                                handler |-> NoRun],
               !.router.held = IF isResult THEN @ \ {answered} ELSE @]
  IN  /\ obs.frames < MaxFrames
      /\ conns[p] \in {"open", "closing"}
      /\ f \in PeerFrames(Cur, p)
      /\ IF isResult /\ origin # 0 THEN answered \in router.held
         ELSE origin = 0
      /\ isResult /\ origin = 0 =>
            \E c \in DOMAIN taskCalls : /\ taskCalls[c].peerId = p
                                        /\ taskCalls[c].taskId = f.task
      /\ ex # "none" => router.taskReceivedHandler /\ f.type = "task_delegate"
      /\ Commit(onPeerMessage(s0, p, f, ok, ex))

\* Time passes: Date.now() returns a later value from now on.
ClockTick ==
  /\ api.now < MaxClock
  /\ Commit([Cur EXCEPT !.api.now = @ + 1])

\* ------------------------------------------------------------ broadcast
\* Variant of broadcastTo that gives up at the first peer whose send fails
\* and rejects.
RECURSIVE broadcastUntilFailure(_, _, _)
broadcastUntilFailure(s, ids, bad) ==
  IF ids = <<>> THEN [s EXCEPT !.api.bcast.res = "ok"]
  ELSE LET p == Head(ids)
           outs == SendOutcomes(s, p)
       IN  IF "queued" \in outs
           THEN broadcastUntilFailure(
                  [queueMessage(s, p, Notification)
                     EXCEPT !.api.bcast.written = @ \cup {p}], Tail(ids), bad)
           ELSE IF "ok" \in outs /\ p \notin bad
           THEN broadcastUntilFailure(
                  [s EXCEPT !.api.bcast.written = @ \cup {p}], Tail(ids), bad)
           ELSE [s EXCEPT !.api.bcast.failed = @ \cup {p},
                          !.api.bcast.res = "error"]

\* The map() of broadcast(message) over the peer ids `ids`: sendToPeer() is
\* started for each in turn and a rejection is caught and logged; the
\* promise of Promise.all() over the caught promises resolves.
RECURSIVE broadcastTo(_, _, _)
broadcastTo(s, ids, bad) ==
  IF ids = <<>> THEN [s EXCEPT !.api.bcast.res = "ok"]
  ELSE LET p == Head(ids)
           outs == SendOutcomes(s, p)
       IN  IF "queued" \in outs
           THEN broadcastTo(
                  [queueMessage(s, p, Notification)
                     EXCEPT !.api.bcast.written = @ \cup {p}], Tail(ids), bad)
           ELSE IF "ok" \in outs /\ p \notin bad
           THEN broadcastTo(
                  [s EXCEPT !.api.bcast.written = @ \cup {p}], Tail(ids), bad)
           ELSE broadcastTo(
                  [s EXCEPT !.api.bcast.failed = @ \cup {p}], Tail(ids), bad)

\* Array.from(this.peers.keys())
peerKeys(s) == [k \in 1..Len(s.peers) |-> s.peers[k].id]

\* broadcast(message); bad: the peers whose write, if one is made on an open
\* socket, fails.
broadcast(s, bad) ==
  broadcastTo([s EXCEPT !.api.bcastCalls = @ + 1,
                        !.api.bcast = [res |-> "pending", bad |-> bad,
                                       written |-> {}, failed |-> {}]],
              peerKeys(s), bad)

\* syncContext(context) without a peerId.
syncContext(s, bad) == broadcast(s, bad)

Broadcast(bad) ==
  /\ api.bcastCalls < MaxBroadcasts
  /\ Commit(broadcast(Cur, bad))

SyncContext(bad) ==
  /\ api.bcastCalls < MaxBroadcasts
  /\ Commit(syncContext(Cur, bad))

\* ------------------------------------------------------- peer registry
\* disconnectFromPeer(p), called while no start() or stop() is running and
\* no other disconnect of the peer's transport is awaited.
DisconnectFromPeer(p) ==
  /\ pc = "idle"
  /\ api.dfpCalls < MaxDisconnectCalls
  /\ p <= nextPeer
  /\ \A i \in Slots : ~transports[i].closeTimer
  /\ Commit(disconnectFromPeer(Cur, p))

\* ------------------------------------------------------------ behaviours
InitWith(a, f) ==
  /\ mode \in {"host", "client", "peer"}
  /\ started = FALSE
  /\ server = "null"
  /\ clientTransport = 0
  /\ peers = <<>>
  /\ nextPeer = 0
  /\ conns = [p \in PeerIds |-> "none"]
  /\ transports = [i \in Slots |-> NewTransport]
  /\ pendingTasks = [t \in TaskIds |-> 0]
  /\ taskCalls = <<>>
  /\ pendingContextRequests = {}
  /\ ctxCalls = <<>>
  /\ pc = "idle"
  /\ owner = "none"
  /\ starts = 0
  /\ startRes = "none"
  /\ stopRes = "none"
  /\ stopDuringStart = FALSE
  /\ obs = NewObs
  /\ router = NewRouter
  /\ api = a
  /\ fn = f

\* No function is being applied; no result has been computed.
Nothing == [op |-> "none"]

Init == InitWith(NewApi, Nothing)

\* The task table and the context-request table never read each other
\* (handleMessage dispatches a response to exactly one of them, and
\* notifyPeerDisconnected and cleanup treat them in two separate loops), so
\* the two kinds of call are explored in two specifications over the same
\* lifecycle and transport.  Spec: a caller that delegates tasks.
Next ==
  \/ StartCall
  \/ StopCall
  \/ ServerListening
  \/ ServerError
  \/ ServerClosed
  \/ AcceptConnection
  \/ \E p \in PeerIds : WsPeerClose(p)
  \/ \E i \in Slots : SockOpen(i)
  \/ \E i \in Slots : SockFail(i)
  \/ \E i \in Slots : SockClose(i)
  \/ \E i \in Slots : ReconnectTimer(i)
  \/ \E i \in Slots : DisconnectTimeout(i)
  \/ \E t \in TaskIds, p \in PeerIds : DelegateTask(t, p)
  \/ \E c \in 1..MaxTaskCalls : TaskSendError(c)
  \/ \E c \in 1..MaxTaskCalls : TaskTimeout(c)
  \/ \E t \in TaskIds : TaskResponse(t)

Spec == Init /\ [][Next]_vars

\* SpecCtx: a caller that requests context.
NextCtx ==
  \/ StartCall
  \/ StopCall
  \/ ServerListening
  \/ ServerError
  \/ ServerClosed
  \/ AcceptConnection
  \/ \E p \in PeerIds : WsPeerClose(p)
  \/ \E i \in Slots : SockOpen(i)
  \/ \E i \in Slots : SockFail(i)
  \/ \E i \in Slots : SockClose(i)
  \/ \E i \in Slots : ReconnectTimer(i)
  \/ \E i \in Slots : DisconnectTimeout(i)
  \/ \E p \in PeerIds : RequestContext(p)
  \/ \E c \in 1..MaxCtxCalls : CtxSendError(c)
  \/ \E c \in 1..MaxCtxCalls : CtxTimeout(c)
  \/ \E c \in 1..MaxCtxCalls, err \in BOOLEAN : CtxResponse(c, err)

SpecCtx == Init /\ [][NextCtx]_vars

\* SpecMsg: a listening Bridge and what it does with the frames its
\* accepted peers send, while at most one task of its own is delegated.
InitMsg == Init /\ mode = "host"

NextMsg ==
  \/ StartCall
  \/ ServerListening
  \/ AcceptConnection
  \/ \E p \in PeerIds : WsPeerClose(p)
  \/ OnTaskReceived
  \/ \E t \in TaskIds, p \in PeerIds : taskCalls = <<>> /\ DelegateTask(t, p)
  \/ \E p \in PeerIds, ok \in BOOLEAN, ex \in {"none"} \cup HandlerErrors :
       \E f \in PeerFrames(Cur, p), o \in 0..MaxPeers :
          PeerMessage(p, f, o, ok, ex)
  \/ \E k \in 1..MaxFrames, ok \in BOOLEAN : ForwardCallback(k, ok)

SpecMsg == InitMsg /\ [][NextMsg]_vars

\* SpecStart: a listening Bridge on which start() is called a second time
\* while the first call is suspended or after it resolved, and stop().
NextStart ==
  \/ StartCall
  \/ StartCallAgain
  \/ StopCall
  \/ ServerListening
  \/ \E bound \in BOOLEAN : SecondListener(bound)
  \/ ServerClosed
  \/ AcceptConnection
  \/ \E p \in PeerIds : WsPeerClose(p)

SpecStart == InitMsg /\ [][NextStart]_vars

\* ------------------------------------------------------------ auto-sync

\* startAutoSync(contextProvider): stops an armed interval and arms a new
\* one.  It does not look at `started`.
startAutoSync(s, async) ==
  [stopAutoSync(s) EXCEPT !.api.autoSyncIntervalId = TRUE,
                          !.api.asyncProvider = async,
                          !.api.autoSyncStarts = @ + 1,
                          !.api.autoSyncSinceStop = TRUE]

StartAutoSync(async) ==
  /\ api.autoSyncStarts < MaxAutoSyncStarts
  /\ Commit(startAutoSync(Cur, async))

StopAutoSync ==
  /\ api.autoSyncIntervalId
  /\ Commit(stopAutoSync(Cur))

\* The rest of the interval callback once the provider's context is there:
\* await this.syncContext(context), whose failures the callback logs.
autoSyncBroadcast(s, bad) == syncContext(s, bad)

\* One firing of the interval: with a provider whose promise is pending the
\* callback suspends, otherwise it runs to its broadcast.
AutoSyncTick(bad) ==
  /\ api.autoSyncIntervalId
  /\ api.ticks < MaxTicks
  /\ LET s1 == [Cur EXCEPT !.api.ticks = @ + 1]
     IN  IF api.asyncProvider
         THEN /\ bad = {}
              /\ Commit([s1 EXCEPT !.api.inflight = @ + 1])
         ELSE Commit(autoSyncBroadcast(s1, bad))

\* The provider's promise settles: fulfilled, the callback broadcasts;
\* rejected, it logs 'Auto-sync error'.
ProviderSettled(fulfilled, bad) ==
  /\ api.inflight > 0
  /\ LET s1 == [Cur EXCEPT !.api.inflight = @ - 1]
     IN  IF fulfilled THEN Commit(autoSyncBroadcast(s1, bad))
         ELSE bad = {} /\ Commit(s1)

\* SpecSync: the Bridge's lifecycle with its auto-sync schedule.
NextSync ==
  \/ StartCall
  \/ StopCall
  \/ ServerListening
  \/ ServerError
  \/ ServerClosed
  \/ AcceptConnection
  \/ \E p \in PeerIds : WsPeerClose(p)
  \/ \E i \in Slots : SockOpen(i)
  \/ \E i \in Slots : SockFail(i)
  \/ \E i \in Slots : SockClose(i)
  \/ \E i \in Slots : ReconnectTimer(i)
  \/ \E i \in Slots : DisconnectTimeout(i)
  \/ \E async \in BOOLEAN : StartAutoSync(async)
  \/ StopAutoSync
  \/ \E bad \in SUBSET PeerIds : AutoSyncTick(bad)
  \/ \E f \in BOOLEAN, bad \in SUBSET PeerIds : ProviderSettled(f, bad)

SpecSync == Init /\ [][NextSync]_vars

\* SpecPending: a listening Bridge with tasks and context requests pending
\* on the peers it accepted.
NextPending ==
  \/ StartCall
  \/ ServerListening
  \/ ServerError
  \/ AcceptConnection
  \/ \E p \in PeerIds : WsPeerClose(p)
  \/ \E p \in PeerIds : DisconnectFromPeer(p)
  \/ \E t \in TaskIds, p \in PeerIds : DelegateTask(t, p)
  \/ \E c \in 1..MaxTaskCalls : TaskSendError(c)
  \/ \E c \in 1..MaxTaskCalls : TaskTimeout(c)
  \/ \E p \in PeerIds : RequestContext(p)
  \/ \E c \in 1..MaxCtxCalls : CtxSendError(c)
  \/ \E c \in 1..MaxCtxCalls : CtxTimeout(c)

SpecPending == InitMsg /\ [][NextPending]_vars

\* SpecAuth: a listening Bridge, with or without an authenticator, the
\* connection attempts it receives and the frames the admitted peers send as
\* time passes.
InitAuth ==
  \E auth \in BOOLEAN :
     InitWith([NewApi EXCEPT !.auth = auth], Nothing)
       /\ mode \in {"host", "peer"}

NextAuth ==
  \/ StartCall
  \/ StopCall
  \/ ServerListening
  \/ ServerError
  \/ ServerClosed
  \/ AcceptConnection
  \/ ClockTick
  \/ \E p \in PeerIds, f \in {BadJson, BadSchema, Notification} :
        PeerMessage(p, f, 0, TRUE, "none")
  \/ \E p \in PeerIds : WsPeerClose(p)
  \/ \E i \in Slots : SockOpen(i)
  \/ \E i \in Slots : SockFail(i)
  \/ \E i \in Slots : SockClose(i)
  \/ \E i \in Slots : ReconnectTimer(i)
  \/ \E i \in Slots : DisconnectTimeout(i)

SpecAuth == InitAuth /\ [][NextAuth]_vars

\* SpecPeer: the lifecycle, the sockets and the peer registry, with callers
\* of disconnectFromPeer(); stop() is not called while such a call waits.
NextPeer ==
  \/ StartCall
  \/ api.dfp = {} /\ StopCall
  \/ ServerListening
  \/ ServerError
  \/ ServerClosed
  \/ AcceptConnection
  \/ \E p \in PeerIds : WsPeerClose(p)
  \/ \E i \in Slots : SockOpen(i)
  \/ \E i \in Slots : SockFail(i)
  \/ \E i \in Slots : SockClose(i)
  \/ \E i \in Slots : ReconnectTimer(i)
  \/ \E i \in Slots : DisconnectTimeout(i)
  \/ \E p \in PeerIds : DisconnectFromPeer(p)
  \/ \E bad \in SUBSET PeerIds : Broadcast(bad)
  \/ \E bad \in SUBSET PeerIds : SyncContext(bad)

SpecPeer == Init /\ [][NextPeer]_vars

\* SpecT: a WebSocketTransport used on its own, as a caller of connect(),
\* send() and disconnect() with registered handlers sees it.
InitT == Init /\ mode = "client"

NextT ==
  \/ \E r \in BOOLEAN : TransportConnect(r)
  \/ \E ok \in BOOLEAN : TransportSend(ok)
  \/ TransportDisconnect
  \/ \E ok \in BOOLEAN : WsOpen(ok)
  \/ WsFail
  \/ WsClose
  \/ \E ok \in BOOLEAN : WsWriteCallback(ok)
  \/ \E f \in {BadJson, BadSchema, Notification} : TransportFrame(f)
  \/ ReconnectTimer(Alone)
  \/ DisconnectTimeout(Alone)

SpecT == InitT /\ [][NextT]_vars

\* SpecConn: the sockets and timers of one WebSocketTransport whose caller
\* may call connect() at any time and sends nothing.
NextConn ==
  \/ \E r \in BOOLEAN : TransportConnect(r)
  \/ \E r \in BOOLEAN : TransportConnectAgain(r)
  \/ TransportDisconnect
  \/ \E ok \in BOOLEAN : WsOpen(ok)
  \/ WsFail
  \/ WsClose
  \/ \E e \in {"open", "error", "close"} : StaleSocket(e, TRUE)
  \/ ReconnectTimer(Alone)
  \/ DisconnectTimeout(Alone)

SpecConn == InitT /\ [][NextConn]_vars

\* SpecBeat: the heartbeat of one WebSocketTransport that sends nothing and
\* whose caller calls connect() only when no socket and no timer of an
\* earlier connection is alive.
NextBeat ==
  \/ \E r \in BOOLEAN : TransportConnect(r)
  \/ TransportDisconnect
  \/ \E ok \in BOOLEAN : WsOpen(ok)
  \/ WsFail
  \/ WsClose
  \/ ReconnectTimer(Alone)
  \/ DisconnectTimeout(Alone)
  \/ HeartbeatInterval
  \/ WsPong
  \/ HeartbeatTimeout

SpecBeat == InitT /\ [][NextBeat]_vars

\* ================================================================ claims
TaskCallIds == DOMAIN taskCalls
CtxCallIds  == DOMAIN ctxCalls

\* The connection of peer p ends in this step: the 'close' event of its
\* accepted socket, or of the socket of the transport it was dialed on.
PeerClosedStep(p) ==
  \/ conns[p] \in {"open", "closing"} /\ conns'[p] = "closed"
  \/ \E i \in Slots : /\ transports[i].peerId = p
                      /\ transports[i].sock \in {"open", "closing"}
                      /\ transports'[i].sock = "closed"

\* ---------------------------------------------------------------- protocol
\* A JavaScript value, as far as JSON.stringify, JSON.parse and the schemas
\* tell values apart: its type and, for a primitive, its value as text.  An
\* object is a record with t = "object" and one field per property; a
\* property that is absent reads as Val("undefined", "").
Val(t, v) == [t |-> t, v |-> v]

\* JSON.stringify of a value: a property whose value is undefined is left
\* out, a number that is not finite is written null, negative zero is
\* written 0, a Date is written as its ISO string, an object property by
\* property.
stringifyValue(x) ==
  LET prim(y) ==
        IF y.t = "number"
        THEN IF y.v \in {"NaN", "Infinity", "-Infinity"} THEN Val("null", "")
             ELSE IF y.v = "-0" THEN Val("number", "0") ELSE y
        ELSE IF y.t = "date" THEN Val("string", y.v)
        ELSE y
  IN  IF x.t = "object"
      THEN [k \in DOMAIN x |-> IF k \in {"t", "v"} THEN x[k] ELSE prim(x[k])]
      ELSE prim(x)

\* serializeMessage(message): JSON.stringify(message).  The text is kept as
\* the tree JSON.parse reads from it.
serializeMessage(m) == [k \in DOMAIN m |-> stringifyValue(m[k])]

\* The primitive zod schemas: z.string(), z.number(), z.boolean(), z.any(),
\* z.string().uuid() and the enums.
z(schema, x) ==
  CASE schema = "string"  -> x.t = "string"
    [] schema = "number"  -> x.t = "number" /\ x.v # "NaN"
    [] schema = "boolean" -> x.t = "boolean"
    [] schema = "any"     -> TRUE
    [] schema = "uuid"    -> /\ x.t = "string"
                             /\ x.v = "123e4567-e89b-12d3-a456-426614174000"
    [] schema = "MessageType" ->
         /\ x.t = "string"
         /\ x.v \in {"request", "response", "context_sync", "task_delegate",
                      "notification"}
    [] schema = "scope"   ->
         x.t = "string" /\ x.v \in {"execute", "analyze", "suggest"}

\* schema.optional()
zOptional(schema, x) == x = Val("undefined", "") \/ z(schema, x)

TaskRequestSchema(x) ==
  /\ x.t = "object"
  /\ z("string", x.id)
  /\ z("string", x.description)
  /\ z("scope", x.scope)
  /\ zOptional("number", x.timeout)

TaskResultSchema(x) ==
  /\ x.t = "object"
  /\ zOptional("string", x.taskId)
  /\ z("boolean", x.success)
  /\ z("any", x.data)

BridgeMessageSchema(m) ==
  /\ z("uuid", m.id)
  /\ z("MessageType", m.type)
  /\ z("string", m.source)
  /\ z("number", m.timestamp)
  /\ m.task = Val("undefined", "") \/ TaskRequestSchema(m.task)
  /\ m.result = Val("undefined", "") \/ TaskResultSchema(m.result)

\* validateMessage(data): BridgeMessageSchema.parse(data), which returns the
\* properties of the schema or throws a ZodError.
validateMessage(data) ==
  IF BridgeMessageSchema(data) THEN [ok |-> TRUE, m |-> data]
  ELSE [ok |-> FALSE, error |-> "ZodError"]

\* deserializeMessage(json): JSON.parse, which reads the tree back (the text
\* is serializeMessage's, so it parses), then validateMessage.
deserializeMessage(json) == validateMessage(json)

\* The messages the functions are applied to: the fields of a BridgeMessage
\* with values inside and outside the schema.
Messages ==
  LET TaskRequests ==
        {[t |-> "object", v |-> "", id |-> Val("string", "task-123"),
          description |-> Val("string", "run"),
          scope |-> Val("string", "execute"), timeout |-> x] :
           x \in {Val("undefined", ""), Val("number", "5000"),
                  Val("number", "Infinity"), Val("string", "5s")}}
      TaskResults ==
        {[t |-> "object", v |-> "", taskId |-> id,
          success |-> Val("boolean", "true"), data |-> x] :
           id \in {Val("undefined", ""), Val("string", "task-123")},
           x \in {Val("undefined", ""), Val("null", ""), Val("number", "1"),
                  Val("number", "-0"), Val("number", "NaN"),
                  Val("string", "a.ts"),
                  Val("date", "2024-01-23T08:53:20.000Z")}}
  IN  [id : {Val("string", "123e4567-e89b-12d3-a456-426614174000"),
             Val("string", "msg-1")},
       type : {Val("string", "response"), Val("string", "task_delegate"),
               Val("string", "bogus")},
       source : {Val("string", "test-instance")},
       timestamp : {Val("number", "1706000000000"), Val("number", "Infinity"),
                    Val("number", "NaN")},
       task : {Val("undefined", "")} \cup TaskRequests,
       result : {Val("undefined", "")} \cup TaskResults]

\* ------------------------------------------------------- context manager
\* A file's content is the sequence of its lines and a line is the number of
\* its words (a line of no words is the empty line); <<>> is a file that
\* readFileSync cannot read.
\* estimateTokens(text): Math.ceil(words * 1.3), 0 for the empty text.
estimateTokens(content) ==
  LET count[i \in 0..Len(content)] ==
        IF i = 0 THEN 0 ELSE count[i - 1] + content[i]
  IN  (13 * count[Len(content)] + 9) \div 10

\* A variant that keeps the first line whatever the limit.
truncateContentKeepsFirstLine(content, maxTokens) == SubSeq(content, 1, 1)

\* truncateContent(content, maxTokens): the lines up to the first one whose
\* estimate does not fit any more.
truncateContent(content, maxTokens) ==
  LET take[i \in 0..Len(content)] ==
        IF i = 0 THEN [n |-> 0, currentTokens |-> 0, stop |-> FALSE]
        ELSE LET a == take[i - 1]
                 lineTokens == estimateTokens(<<content[i]>>)
             IN  IF ~a.stop /\ a.currentTokens + lineTokens <= maxTokens
                 THEN [a EXCEPT !.n = i, !.currentTokens = @ + lineTokens]
                 ELSE [a EXCEPT !.stop = TRUE]
  IN  SubSeq(content, 1, take[Len(content)].n)

\* getRelevantContext(task, maxTokens) on the ranked files: the contents of
\* the chunks it returns.  A truncated content that is the empty string is
\* not pushed.
getRelevantContext(rankedFiles, maxTokens) ==
  LET walk[i \in 0..Len(rankedFiles)] ==
        IF i = 0 THEN [chunks |-> <<>>, currentTokens |-> 0, stop |-> FALSE]
        ELSE LET a == walk[i - 1]
                 content == rankedFiles[i]
                 fileTokens == estimateTokens(content)
                 truncatedContent ==
                   truncateContent(content, maxTokens - a.currentTokens)
                 limit(b) == [b EXCEPT !.stop = b.currentTokens >= maxTokens]
             IN  IF a.stop \/ content = <<>> THEN a
                 ELSE IF a.currentTokens + fileTokens <= maxTokens
                 THEN limit([a EXCEPT !.chunks = Append(@, content),
                                      !.currentTokens = @ + fileTokens])
                 ELSE IF a.chunks = <<>> /\ truncatedContent \notin {<<>>, <<0>>}
                 THEN [a EXCEPT !.chunks = <<truncatedContent>>,
                                !.stop = TRUE]
                 ELSE limit(a)
  IN  walk[Len(rankedFiles)].chunks

\* The ranked file lists getRelevantContext is applied to.
RankedFiles ==
  LET Contents == UNION {[1..n -> 0..MaxWords] : n \in 0..MaxLines}
  IN  UNION {[1..n -> Contents] : n \in 0..MaxFiles}

GetRelevantContext ==
  /\ fn.op = "getRelevantContext"
  /\ fn.out = Nothing
  /\ Commit([Cur EXCEPT !.fn.out =
                [chunks |-> getRelevantContext(fn.files, fn.maxTokens)]])

\* A variant that compares the modification times only.
getDeltaByMtime(found, lastState, currentState) ==
  LET change(path) ==
        IF path \notin DOMAIN currentState
        THEN IF path \in DOMAIN lastState
             THEN <<[path |-> path, action |-> "deleted"]>> ELSE <<>>
        ELSE IF path \notin DOMAIN lastState
        THEN <<[path |-> path, action |-> "added"]>>
        ELSE IF currentState[path].mtime # lastState[path].mtime
        THEN <<[path |-> path, action |-> "modified"]>>
        ELSE <<>>
      all[i \in 0..MaxPaths] ==
        IF i = 0 THEN <<>> ELSE all[i - 1] \o change(i)
  IN  [ok |-> TRUE, changes |-> all[MaxPaths]]

\* getDelta(lastSyncId): found tells whether a snapshot is stored under
\* lastSyncId, lastState is its file states, currentState those of the
\* snapshot generateSnapshot() takes now; both map a path to its mtime and
\* size.  First the added and modified paths of currentState, then the
\* deleted ones of lastState.
getDelta(found, lastState, currentState) ==
  LET upsert(path) ==
        IF path \notin DOMAIN currentState THEN <<>>
        ELSE IF path \notin DOMAIN lastState
        THEN <<[path |-> path, action |-> "added"]>>
        ELSE IF \/ currentState[path].mtime # lastState[path].mtime
                \/ currentState[path].size # lastState[path].size
        THEN <<[path |-> path, action |-> "modified"]>>
        ELSE <<>>
      deleted(path) ==
        IF path \in DOMAIN lastState /\ path \notin DOMAIN currentState
        THEN <<[path |-> path, action |-> "deleted"]>>
        ELSE <<>>
      first[i \in 0..MaxPaths] ==
        IF i = 0 THEN <<>> ELSE first[i - 1] \o upsert(i)
      second[i \in 0..MaxPaths] ==
        IF i = 0 THEN <<>> ELSE second[i - 1] \o deleted(i)
  IN  IF ~found
      THEN [ok |-> FALSE, error |-> "Snapshot not found"]
      ELSE [ok |-> TRUE, changes |-> first[MaxPaths] \o second[MaxPaths]]

\* The file states a snapshot may hold.
FileStates ==
  UNION {[S -> [mtime : 1..MaxStat, size : 1..MaxStat]] :
           S \in SUBSET (1..MaxPaths)}

GetDelta ==
  /\ fn.op = "getDelta"
  /\ fn.out = Nothing
  /\ Commit([Cur EXCEPT !.fn.out =
                getDelta(fn.found, fn.lastState, fn.currentState)])

SerializeMessage ==
  /\ fn.op = "codec"
  /\ fn.json = Nothing
  /\ Commit([Cur EXCEPT !.fn.json = [ok |-> TRUE,
                                     text |-> serializeMessage(fn.m)]])

DeserializeMessage ==
  /\ fn.op = "codec"
  /\ fn.json # Nothing
  /\ fn.out = Nothing
  /\ Commit([Cur EXCEPT !.fn.out = deserializeMessage(fn.json.text)])

\* SpecFn: the functions of the protocol and of the context manager, each
\* applied to arguments drawn from bounded sets.
InitFn ==
  /\ mode = "host"
  /\ \/ \E m \in Messages :
          InitWith(NewApi, [op |-> "codec", m |-> m,
                            valid |-> validateMessage(m).ok,
                            json |-> Nothing, out |-> Nothing])
     \/ \E files \in RankedFiles, maxTokens \in 0..MaxBudget :
          InitWith(NewApi, [op |-> "getRelevantContext", files |-> files,
                            maxTokens |-> maxTokens, out |-> Nothing])
     \/ \E found \in BOOLEAN, lastState \in FileStates,
           currentState \in FileStates :
          /\ ~found => lastState = <<>>
          /\ InitWith(NewApi, [op |-> "getDelta", found |-> found,
                               lastState |-> lastState,
                               currentState |-> currentState,
                               out |-> Nothing])

NextFn ==
  \/ SerializeMessage
  \/ DeserializeMessage
  \/ GetRelevantContext
  \/ GetDelta

SpecFn == InitFn /\ [][NextFn]_vars

\* C1: every delegateTask call that registered an entry has its promise
\* unsettled exactly as long as the pending-task table holds the entry of that
\* call: the promise is settled at the moment the entry goes, never before and
\* never later.
C1_SettledExactlyOnce ==
  \A c \in TaskCallIds :
    (taskCalls[c].fut = "pending") <=> (pendingTasks[taskCalls[c].taskId] = c)

\* C2: a delegateTask call whose task id is already pending registers
\* nothing: the entry stored under that id, and the timer and promise of the
\* call that owns it, are unchanged by the call.
C2_CollisionRefused ==
  [][\A t \in TaskIds :
       ( /\ pendingTasks[t] # 0
         /\ Len(taskCalls') > Len(taskCalls)
         /\ taskCalls'[Len(taskCalls')].taskId = t )
       => /\ pendingTasks'[t] = pendingTasks[t]
          /\ taskCalls'[pendingTasks[t]] = taskCalls[pendingTasks[t]]]_vars

\* C3: when the connection of a peer ends while the promise of a task
\* delegated to that peer is unsettled, the promise is rejected with the
\* peer-disconnected error, and that outcome never changes afterwards.
C3_DisconnectRejects ==
  [][\A c \in TaskCallIds :
       /\ (taskCalls[c].fut = "pending" /\ PeerClosedStep(taskCalls[c].peerId))
            => taskCalls'[c].fut = "rej_disconnect"
       /\ taskCalls[c].fut = "rej_disconnect"
            => taskCalls'[c].fut = "rej_disconnect"]_vars

\* C4: once the timeout of a delegateTask call has expired its promise is no
\* longer unsettled (without a response it was rejected with the timeout
\* error), and a promise rejected with the timeout error stays so whatever
\* response arrives later.
C4_TimeoutRejects ==
  /\ [](\A c \in TaskCallIds :
          ~taskCalls[c].timer => taskCalls[c].fut # "pending")
  /\ [][\A c \in TaskCallIds :
          taskCalls[c].fut = "rej_timeout"
            => taskCalls'[c].fut = "rej_timeout"]_vars

\* C5 as stated: the promise of a requestContext call is unsettled exactly
\* while its entry is in the pending-context table, and it is settled by the
\* response, by its timeout, by the disconnect of the target peer or by
\* shutdown - by nothing else.
C5_AsStated ==
  \A c \in CtxCallIds :
    /\ (ctxCalls[c].fut = "pending") <=> (c \in pendingContextRequests)
    /\ ctxCalls[c].fut \in {"pending", "resolved", "rej_error", "rej_timeout",
                            "rej_disconnect", "rej_shutdown"}

\* C5 (amended): the promise of a requestContext call is unsettled exactly
\* while its entry is in the pending-context table and its timer is armed;
\* it is settled by the response, by its timeout, by the disconnect of the
\* target peer, by shutdown or by a send error, and once settled its outcome
\* never changes.
C5_CtxSettledExactlyOnce ==
  /\ [](\A c \in CtxCallIds :
          /\ (ctxCalls[c].fut = "pending") <=> (c \in pendingContextRequests)
          /\ (ctxCalls[c].fut = "pending") <=> ctxCalls[c].timer
          /\ pendingContextRequests \subseteq CtxCallIds)
  /\ [][\A c \in CtxCallIds :
          ctxCalls[c].fut # "pending" => ctxCalls'[c].fut = ctxCalls[c].fut]_vars

\* C5 witness: a context request that was registered and then rejected by
\* the send error, its entry gone, after the bridge had started.
C5_Witness ==
  \E c \in CtxCallIds :
    /\ ctxCalls[c].fut = "rej_send"
    /\ c \notin pendingContextRequests
    /\ started

\* A stop() call that gets past the started check, and its return.
StopBegins  == started /\ pc = "idle" /\ (pc' # "idle" \/ ~started')
StopReturns == started /\ ~started'

\* C6: stop() on a started bridge rejects every unsettled task and context
\* promise with 'Bridge is shutting down', and when it returns both pending
\* tables are empty.
C6_StopFailsAllPending ==
  [][/\ StopBegins =>
          /\ \A c \in TaskCallIds :
               taskCalls[c].fut = "pending" => taskCalls'[c].fut = "rej_shutdown"
          /\ \A c \in CtxCallIds :
               ctxCalls[c].fut = "pending" => ctxCalls'[c].fut = "rej_shutdown"
     /\ StopReturns =>
          /\ \A t \in TaskIds : pendingTasks'[t] = 0
          /\ pendingContextRequests' = {}]_vars

\* C7: if stop() was called while start() was in progress, start() ends with
\* an error and with nothing left acquired; the bridge is not started.
C7_StopDuringStartFailsStart ==
  (stopDuringStart /\ startRes # "running")
    => /\ startRes = "error"
       /\ ~started
       /\ server = "null"
       /\ peers = <<>>
       /\ clientTransport = 0

\* C8: when start() returns an error the bridge is not started, the listener
\* is closed, the registry is empty and no client transport is connected,
\* connecting or scheduled to reconnect.
C8_StartFailsAtomically ==
  [][(startRes = "running" /\ startRes' = "error")
       => /\ ~started'
          /\ server' = "null"
          /\ peers' = <<>>
          /\ clientTransport' = 0
          /\ \A i \in Slots : /\ transports'[i].state = "DISCONNECTED"
                              /\ ~transports'[i].reconnectTimer]_vars

\* C9: a stop() call made after a stop() has completed (and before any new
\* start()) changes nothing in the bridge: nothing is rejected, nothing is
\* closed.
C9_SecondStopNoOp ==
  [][(stopRes = "done" /\ StopCall)
       => UNCHANGED <<mode, started, server, clientTransport, peers, nextPeer,
                      conns, transports, pendingTasks, taskCalls,
                      pendingContextRequests, ctxCalls, pc, owner, starts,
                      startRes>>]_vars

\* C9 witness: start() succeeded, a stop() completed, and a further stop()
\* returned at once.
C9_Witness ==
  /\ startRes = "ok"
  /\ ~started
  /\ stopRes = "noop"

\* C10: a peer is in the registry iff its connection is CONNECTED, or
\* RECONNECTING with queued messages: for every transport that was dialed,
\* and for every accepted socket (which is connected while it is open).
C10_RegistryIffConnected ==
  /\ \A i \in Slots :
       transports[i].sock # "none" =>
         ( (\E k \in 1..Len(peers) : peers[k].transport = i)
           <=> \/ transports[i].state = "CONNECTED"
               \/ /\ transports[i].state = "RECONNECTING"
                  /\ transports[i].messageQueue # <<>> )
  /\ \A p \in PeerIds :
       conns[p] # "none" => (hasPeer(Cur, p) <=> conns[p] = "open")

\* C11: when the initial attempt of a connect() call fails, the promise of
\* connect() is rejected and the transport is left DISCONNECTED with no
\* reconnect timer armed, whatever config.reconnect is.
C11_InitialFailureFailsFast ==
  [][( /\ transports[Alone].connectPending
       /\ transports[Alone].sock = "connecting"
       /\ transports'[Alone].sock = "closed" )
       => /\ obs'.connectRes = "error"
          /\ transports'[Alone].state = "DISCONNECTED"
          /\ ~transports'[Alone].reconnectTimer]_vars

\* C12: a send() call writes at once when the transport is CONNECTED; it
\* puts the message on the queue when reconnect is enabled, attempts remain,
\* no disconnect() was called since the last connect() and the state is
\* RECONNECTING or DISCONNECTED; in every other case it fails with
\* 'Not connected' and the queue is unchanged.
C12_SendWritesQueuesOrFails ==
  [][obs'.sends = obs.sends + 1 =>
       LET t == transports[Alone]
           q == transports'[Alone].messageQueue
       IN  IF t.state = "CONNECTED"
           THEN /\ obs'.lastSend \in {"written", "write_failed"}
                /\ q = t.messageQueue
           ELSE IF /\ t.reconnect
                   /\ ~t.intentionalDisconnect
                   /\ t.reconnectAttempts < maxReconnectAttempts
                   /\ t.state \in {"RECONNECTING", "DISCONNECTED"}
           THEN /\ obs'.lastSend = "queued"
                /\ q = Append(t.messageQueue, obs'.sends)
           ELSE /\ obs'.lastSend = "not_connected"
                /\ q = t.messageQueue]_vars

\* The members of set S in the order they have in sequence q.
Restrict(q, S) == SelectSeq(q, LAMBDA m : m \in S)

Ascending(q) == \A j, k \in 1..Len(q) : j < k => q[j] < q[k]

\* C13: once the transport is CONNECTED again and the flush started by the
\* open event has ended, the queue is empty and every message that was
\* queued (and not discarded by a disconnect() call) has been delivered,
\* in the order of enqueueing.
C13_QueueFlushedInOrder ==
  LET t == transports[Alone]
  IN  (t.state = "CONNECTED" /\ t.sock = "open" /\ t.inflight = 0)
        => /\ t.messageQueue = <<>>
           /\ (obs.queued \ obs.dropped) \subseteq Range(obs.wire)
           /\ Ascending(Restrict(obs.wire, obs.queued))

\* The messages whose send() call was accepted (written or queued) and that
\* no disconnect() call discarded, in the order of the calls.
Accepted ==
  Restrict([k \in 1..obs.sends |-> k],
           (1..obs.sends) \ (obs.refused \cup obs.dropped))

IsPrefix(p, q) == Len(p) <= Len(q) /\ \A k \in 1..Len(p) : p[k] = q[k]

\* C14: what the peer has received is at every moment a contiguous, in-order
\* prefix of the messages send() accepted.
C14_WireIsPrefixOfAccepted == IsPrefix(obs.wire, Accepted)

\* C15: when a connection that had been established is lost and the last
\* of the maxReconnectAttempts reconnection attempts fails, the transport becomes DISCONNECTED and the onError handlers are
\* given the error that says the attempts are exhausted.
C15_ExhaustionReported ==
  [][( /\ obs.connectRes = "ok"
       /\ transports[Alone].state = "CONNECTING"
       /\ transports[Alone].sock = "connecting"
       /\ transports[Alone].reconnectAttempts = maxReconnectAttempts
       /\ ~transports[Alone].intentionalDisconnect
       /\ transports'[Alone].sock = "closed" )
       => /\ transports'[Alone].state = "DISCONNECTED"
          /\ "max_reconnects" \in obs'.errors]_vars

\* disconnect() has been called since the last connect() and its promise
\* has resolved.
afterDisconnect(t) == t.intentionalDisconnect /\ ~t.closeTimer

\* C16: from the moment a disconnect() call completes until connect() is
\* called again, the transport is DISCONNECTED, no reconnect timer is armed
\* and no connection attempt is under way; the queue is empty at completion
\* and only a later send() call can put anything on it.
C16_DisconnectIsFinal ==
  [][LET t == transports[Alone]
         u == transports'[Alone]
     IN  afterDisconnect(u) =>
           /\ u.state = "DISCONNECTED"
           /\ ~u.reconnectTimer
           /\ u.sock # "connecting"
           /\ ( /\ obs'.sends = obs.sends
                /\ (~afterDisconnect(t) \/ t.messageQueue = <<>>) )
                 => u.messageQueue = <<>>]_vars

\* C17: a frame that is not JSON or that the schema rejects is reported to
\* the error handlers, reaches no message handler, and leaves every
\* connection as it was.
C17_InvalidFrameReported ==
  [][( /\ obs'.frames = obs.frames + 1
       /\ obs'.lastFrame \in {"bad_json", "bad_schema"} )
       => /\ "invalid_message" \in obs'.errors
          /\ obs'.handled = obs.handled
          /\ router'.last.sent = {}
          /\ UNCHANGED <<transports, conns, peers>>]_vars

\* C18: no task_delegate frame is written to a peer after it has already
\* been forwarded once.
C18_SingleHop ==
  \A x \in router.last.sent :
     x.frame.type = "task_delegate" => x.frame.hops <= 1

\* C19: when the result of a task arrives that was forwarded for peer
\* `origin`, the forward key of the task is removed, the result is written
\* to origin if its socket is open, to no other peer, and no entry of the
\* pending-task table is completed.
C19_ForwardedResultGoesBack ==
  [][( /\ obs'.frames = obs.frames + 1
       /\ router'.last.origin # 0 )
       => LET t == router'.last.task
              o == router'.last.origin
          IN  /\ router'.forward[t] = 0
              /\ \A x \in router'.last.sent : x.to = o
              /\ UNCHANGED <<pendingTasks, taskCalls>>]_vars

\* C20: a response resolves only a call whose task id is the response's
\* result.taskId: the call that becomes resolved receives a result carrying
\* its own task id, and no call with a different task id changes.
C20_NoCrossCorrelation ==
  [][\A c \in DOMAIN taskCalls :
        (taskCalls[c].fut = "pending" /\ taskCalls'[c].fut = "resolved")
          => /\ taskCalls'[c].result = taskCalls[c].taskId
             /\ \A d \in DOMAIN taskCalls :
                   taskCalls[d].taskId # taskCalls[c].taskId
                     => taskCalls'[d] = taskCalls[d]]_vars

\* Two calls with distinct task ids were pending together and the response
\* to the later one arrived first.
C20_Witness ==
  /\ Len(taskCalls) = 2
  /\ taskCalls[1].taskId # taskCalls[2].taskId
  /\ taskCalls[1].fut = "pending"
  /\ taskCalls[2].fut = "resolved"
  /\ taskCalls[2].result = taskCalls[2].taskId

\* C21: the peer-disconnected handlers are never invoked twice for one
\* peer, and once a registered peer's connection has ended (its socket is
\* closed and it is out of the registry) they have been invoked for it.
C21_DisconnectedNotifiedOnce ==
  \A p \in PeerIds :
     /\ api.peerDisconnected[p] <= 1
     /\ (p <= nextPeer /\ ~hasPeer(Cur, p) /\ api.dfp = {} /\ pc = "idle"
           /\ conns[p] \in {"none", "closed"}
           /\ \A i \in Slots : transports[i].peerId = p
                                  => transports[i].sock = "closed")
          => api.peerDisconnected[p] = 1

\* C22: a disconnectFromPeer(id) call on a registered peer succeeds and
\* leaves the peer out of the registry; a call on an id that is not
\* registered, as is any second call for an id a call succeeded for, fails
\* with peer-not-found and changes nothing.
C22_SecondDisconnectFails ==
  [][LET p == api'.dfpPeer
     IN  /\ api'.dfpCalls = api.dfpCalls + 1 =>
               IF hasPeer(Cur, p)
               THEN /\ api'.dfpRes \in {"ok", "pending"}
                    /\ p \notin api.dfpOk
               ELSE /\ api'.dfpRes = "not_found"
                    /\ UNCHANGED <<peers, conns, transports>>
         /\ api'.dfpRes = "ok" => ~hasPeer([peers |-> peers'], p)]_vars

\* A second call for the id of an accepted peer, after the first succeeded.
C22_Witness ==
  /\ api.dfpCalls = 2
  /\ api.dfpRes = "not_found"
  /\ api.dfpPeer \in api.dfpOk

\* Peer p can be written to: its socket is open, or its transport queues.
Writable(s, p) == SendOutcomes(s, p) \cap {"ok", "queued"} # {}

\* C23: a broadcast() or syncContext() call resolves, and the message goes
\* to every registered peer whose own send does not fail, whichever other
\* peers' sends fail.
C23_BroadcastIsolatesFailures ==
  [][api'.bcastCalls = api.bcastCalls + 1 =>
       /\ api'.bcast.res = "ok"
       /\ api'.bcast.written =
            {p \in PeerIdsOf(Cur) :
               /\ Writable(Cur, p)
               /\ ("queued" \in SendOutcomes(Cur, p) \/ p \notin api'.bcast.bad)}
       /\ api'.bcast.failed = PeerIdsOf(Cur) \ api'.bcast.written]_vars

\* The send to the first peer of the registry failed and the message was
\* still written to a later one.
C23_Witness ==
  /\ api.bcast.res = "ok"
  /\ \E p \in api.bcast.failed, q \in api.bcast.written : p < q

StoppedAutoSync(sr, a) == sr \in {"done", "noop"} /\ ~a.autoSyncSinceStop

\* C25: once a stop() call has completed, and until startAutoSync is called
\* again, the interval is not armed, no tick fires and the schedule issues
\* no context_sync broadcast.
C25_StopStopsAutoSync ==
  [][(StoppedAutoSync(stopRes, api) /\ StoppedAutoSync(stopRes', api'))
       => /\ ~api.autoSyncIntervalId
          /\ api'.ticks = api.ticks
          /\ api'.bcastCalls = api.bcastCalls]_vars

\* C26: with an authenticator, every connection attempt is evaluated by it
\* exactly once; an attempt it rejects is refused with code 4001, adds no
\* peer to the registry, opens no socket and invokes no peer-connected
\* handler; an attempt it accepts is registered under a fresh peer id and
\* the peer-connected handlers are invoked once for it.
C26_AuthenticatedBeforePeer ==
  [][api'.attempts = api.attempts + 1 =>
       LET a == api'.lastAttempt
       IN  /\ api'.authEvals = api.authEvals + (IF api.auth THEN 1 ELSE 0)
           /\ a.accepted = api'.lastCredentials
           /\ IF a.accepted
              THEN /\ nextPeer' = nextPeer + 1
                   /\ hasPeer([peers |-> peers'], nextPeer')
                   /\ api'.peerConnected =
                        [api.peerConnected EXCEPT ![nextPeer'] = 1]
              ELSE /\ a.code = 4001
                   /\ UNCHANGED <<peers, nextPeer, conns>>
                   /\ api'.peerConnected = api.peerConnected]_vars

\* The authenticator rejected an attempt while a peer was registered.
C26_Witness ==
  /\ api.auth
  /\ ~api.lastAttempt.accepted
  /\ api.rejected > 0
  /\ peers # <<>>

\* C27: for every message the schema accepts, deserializing its
\* serialization succeeds and returns a message equal to it in every field.
C27_RoundTrip ==
  (fn.op = "codec" /\ fn.valid /\ fn.out # Nothing)
     => fn.out = [ok |-> TRUE, m |-> fn.m]

\* C28: for any ranked files and any maxTokens >= 0, the estimated token
\* counts of the chunks getRelevantContext returns add up to at most
\* maxTokens.
C28_WithinBudget ==
  (fn.op = "getRelevantContext" /\ fn.out # Nothing)
     => LET chunks == fn.out.chunks
            total[i \in 0..Len(chunks)] ==
              IF i = 0 THEN 0 ELSE total[i - 1] + estimateTokens(chunks[i])
        IN  total[Len(chunks)] <= fn.maxTokens

\* The first file did not fit and its first line, which uses the whole
\* budget, was returned in its place.
C28_Witness ==
  /\ fn.op = "getRelevantContext"
  /\ fn.out # Nothing
  /\ fn.files # <<>>
  /\ Len(fn.files[1]) = 2
  /\ fn.out.chunks = <<SubSeq(fn.files[1], 1, 1)>>
  /\ fn.maxTokens > 0
  /\ estimateTokens(fn.out.chunks[1]) = fn.maxTokens

\* C29: getDelta reports a path as added iff it is in the current state and
\* not in the snapshot, as deleted iff it is in the snapshot and not in the
\* current state, as modified iff it is in both with a different mtime or
\* size; a path that is unchanged is not reported and no path is reported
\* twice.
C29_DeltaClassifies ==
  (fn.op = "getDelta" /\ fn.out # Nothing /\ fn.found)
     => LET ch == fn.out.changes
            last == fn.lastState
            cur == fn.currentState
            reported(path, action) ==
              \E i \in DOMAIN ch : ch[i] = [path |-> path, action |-> action]
        IN  /\ fn.out.ok
            /\ \A path \in 1..MaxPaths :
                  /\ reported(path, "added")
                       <=> (path \in DOMAIN cur /\ path \notin DOMAIN last)
                  /\ reported(path, "deleted")
                       <=> (path \in DOMAIN last /\ path \notin DOMAIN cur)
                  /\ reported(path, "modified")
                       <=> (/\ path \in DOMAIN cur \cap DOMAIN last
                            /\ \/ cur[path].mtime # last[path].mtime
                               \/ cur[path].size # last[path].size)
                  /\ Cardinality({i \in DOMAIN ch : ch[i].path = path}) <= 1
            /\ \A i \in DOMAIN ch :
                  ch[i].action \in {"added", "deleted", "modified"}

\* One path was added, one deleted and one modified in its size only.
C29_Witness ==
  /\ fn.op = "getDelta"
  /\ fn.out # Nothing
  /\ fn.found
  /\ {fn.out.changes[i].action : i \in DOMAIN fn.out.changes}
        = {"added", "deleted", "modified"}
  /\ \E path \in DOMAIN fn.lastState \cap DOMAIN fn.currentState :
        /\ fn.lastState[path].mtime = fn.currentState[path].mtime
        /\ fn.lastState[path].size # fn.currentState[path].size

\* C30: a step that notifies the disconnect of peer p removes from both
\* pending tables exactly the entries whose peerId is p, clears their timers
\* and rejects their promises with the peer-disconnected error; every entry
\* addressed to another peer stays in its table with its call unchanged,
\* pending and its timer armed.
C30_DisconnectFailsByPeer ==
  [][\A p \in PeerIds :
        api'.peerDisconnected[p] = api.peerDisconnected[p] + 1 =>
          /\ \A t \in TaskIds :
                LET c == pendingTasks[t]
                IN  c # 0 =>
                      IF taskCalls[c].peerId = p
                      THEN /\ pendingTasks'[t] = 0
                           /\ taskCalls'[c].fut = "rej_disconnect"
                           /\ ~taskCalls'[c].timer
                      ELSE /\ pendingTasks'[t] = c
                           /\ taskCalls'[c] = taskCalls[c]
                           /\ taskCalls'[c].fut = "pending"
                           /\ taskCalls'[c].timer
          /\ \A c \in pendingContextRequests :
                IF ctxCalls[c].peerId = p
                THEN /\ c \notin pendingContextRequests'
                     /\ ctxCalls'[c].fut = "rej_disconnect"
                     /\ ~ctxCalls'[c].timer
                ELSE /\ c \in pendingContextRequests'
                     /\ ctxCalls'[c] = ctxCalls[c]
                     /\ ctxCalls'[c].fut = "pending"
                     /\ ctxCalls'[c].timer]_vars

\* A peer disconnected with a task and a context request pending on it
\* while a task was pending on another peer.
C30_Witness ==
  \E a, b \in DOMAIN taskCalls, c \in DOMAIN ctxCalls :
     /\ taskCalls[a].fut = "rej_disconnect"
     /\ ctxCalls[c].fut = "rej_disconnect"
     /\ ctxCalls[c].peerId = taskCalls[a].peerId
     /\ taskCalls[b].peerId # taskCalls[a].peerId
     /\ taskCalls[b].fut = "pending"
     /\ taskCalls[b].timer
     /\ pendingTasks[taskCalls[b].taskId] = b
     /\ api.peerDisconnected[taskCalls[a].peerId] = 1
     /\ api.peerDisconnected[taskCalls[b].peerId] = 0

\* The socket of the transport used on its own reports 'close' in this step
\* although disconnect() was not called, the state being CONNECTED.
unexpectedClose ==
  /\ transports[Alone].state = "CONNECTED"
  /\ ~transports[Alone].intentionalDisconnect
  /\ transports[Alone].sock \in {"open", "terminated"}
  /\ transports'[Alone].sock = "closed"

\* C31: when the socket closes unexpectedly while the transport is CONNECTED
\* the onDisconnect handlers are called once; with reconnect enabled and
\* attempts left the transport becomes RECONNECTING with the reconnect timer
\* armed, otherwise it becomes DISCONNECTED with no timer.
C31_UnexpectedCloseReconnects ==
  [][unexpectedClose =>
       LET t == transports[Alone]
           u == transports'[Alone]
       IN  /\ obs'.disconnectCalls = obs.disconnectCalls + 1
           /\ obs'.disconnectCalls = 1
           /\ IF t.reconnect /\ t.reconnectAttempts < maxReconnectAttempts
              THEN u.state = "RECONNECTING" /\ u.reconnectTimer
              ELSE u.state = "DISCONNECTED" /\ ~u.reconnectTimer]_vars

\* C32: the reconnect timer is armed only while fewer than
\* maxReconnectAttempts attempts have been made, the attempt number given to
\* onReconnecting is then the new count and lies in 1..maxReconnectAttempts,
\* every attempt the timer starts carries a number in that range, and when
\* the attempt that reached the limit fails the transport stops in
\* DISCONNECTED with no timer armed.
C32_ReconnectAttemptsBounded ==
  [][LET t == transports[Alone]
         u == transports'[Alone]
     IN  /\ (u.reconnectTimer /\ ~t.reconnectTimer) =>
              /\ t.reconnectAttempts < maxReconnectAttempts
              /\ u.reconnectAttempts = t.reconnectAttempts + 1
              /\ obs'.reconnecting = u.reconnectAttempts
              /\ obs'.reconnecting \in 1..maxReconnectAttempts
         /\ (t.reconnectTimer /\ ~u.reconnectTimer /\ u.awaited) =>
              u.reconnectAttempts \in 1..maxReconnectAttempts
         /\ ( /\ t.sock = "connecting"
              /\ u.sock = "closed"
              /\ t.reconnectAttempts = maxReconnectAttempts ) =>
              /\ u.state = "DISCONNECTED"
              /\ ~u.reconnectTimer
              /\ u.reconnectAttempts = maxReconnectAttempts
              /\ obs'.reconnecting = obs.reconnecting]_vars

\* A connection was lost, maxReconnectAttempts attempts were announced and
\* made, the last one failed and nothing more is scheduled.
C32_Witness ==
  /\ transports[Alone].state = "DISCONNECTED"
  /\ transports[Alone].sock = "closed"
  /\ transports[Alone].reconnect
  /\ ~transports[Alone].intentionalDisconnect
  /\ ~transports[Alone].reconnectTimer
  /\ transports[Alone].reconnectAttempts = maxReconnectAttempts
  /\ obs.reconnecting = maxReconnectAttempts
  /\ obs.disconnectCalls = 1

\* C33: the flush writes one message at a time.  When the write of a queued
\* message fails, that message becomes the head of the queue, nothing
\* further is written and the flush is over; the next 'open' starts a flush
\* with the head of the queue.
C33_FlushStopsAtFailure ==
  [][LET t == transports[Alone]
         u == transports'[Alone]
     IN  /\ (t.inflight # 0 /\ u.inflight # t.inflight /\ ~t.inflightOk) =>
              /\ u.messageQueue = <<t.inflight>> \o t.messageQueue
              /\ u.flushing = <<>>
              /\ u.inflight = 0
              /\ obs'.wire = obs.wire
         /\ (t.inflight # 0 /\ u.inflight # t.inflight /\ t.inflightOk) =>
              \/ u.inflight = 0 /\ t.flushing = <<>>
              \/ u.inflight = Head(t.flushing) /\ u.flushing = Tail(t.flushing)
              \/ /\ u.inflight = 0 /\ u.flushing = <<>>
                 /\ u.messageQueue = <<Head(t.flushing)>> \o t.messageQueue
                 /\ obs'.wire = obs.wire
         /\ (t.sock = "connecting" /\ u.sock = "open"
               /\ t.messageQueue # <<>>) =>
              /\ u.inflight = Head(t.messageQueue)
              /\ u.flushing = Tail(t.messageQueue)
              /\ u.messageQueue = <<>>
              /\ obs'.wire \in {obs.wire, Append(obs.wire, u.inflight)}]_vars

\* The write of a queued message failed during a flush: the connection is
\* still open, the flush is over and the message heads the queue.
C33_Witness ==
  /\ transports[Alone].state = "CONNECTED"
  /\ transports[Alone].sock = "open"
  /\ transports[Alone].inflight = 0
  /\ transports[Alone].flushing = <<>>
  /\ transports[Alone].messageQueue # <<>>
  /\ Head(transports[Alone].messageQueue) \in obs.queued
  /\ Head(transports[Alone].messageQueue) \notin Range(obs.wire)

C37_FailedFlushKeepsQueue ==
  [][LET t == transports[Alone]
         u == transports'[Alone]
         rest == <<t.inflight>> \o t.flushing
     IN  ( /\ t.inflight # 0
           /\ u.inflight # t.inflight
           /\ ~t.inflightOk
           /\ ~t.intentionalDisconnect ) =>
           /\ Len(u.messageQueue) >= Len(rest)
           /\ SubSeq(u.messageQueue, 1, Len(rest)) = rest]_vars

\* C34: when the heartbeat interval finds the previous ping unanswered, or
\* the pong timeout fires with the ping unanswered, the socket is terminated
\* while the state is still CONNECTED; the 'close' of the terminated socket
\* calls the onDisconnect handlers once, stops the heartbeat and leaves the
\* transport RECONNECTING with the timer armed if reconnect is enabled and
\* DISCONNECTED otherwise.  A pong clears the timeout and leaves the
\* connection open and CONNECTED, and only an unanswered ping terminates a
\* socket.
C34_HeartbeatClosesDeadConnection ==
  [][LET t == transports[Alone]
         u == transports'[Alone]
     IN  /\ (obs'.beat # obs.beat /\ obs'.beat \in {"unanswered", "timeout"})
              => /\ t.state = "CONNECTED" /\ t.awaitingPong
                 /\ u.sock = "terminated"
                 /\ u.state = "CONNECTED"
                 /\ ~u.awaitingPong /\ ~u.heartbeatTimeout
         /\ (t.sock = "terminated" /\ u.sock = "closed"
               /\ ~t.intentionalDisconnect)
              => /\ obs'.disconnectCalls = obs.disconnectCalls + 1
                 /\ ~u.heartbeatInterval /\ ~u.heartbeatTimeout
                 /\ IF t.reconnect
                    THEN u.state = "RECONNECTING" /\ u.reconnectTimer
                    ELSE u.state = "DISCONNECTED" /\ ~u.reconnectTimer
         /\ (obs'.beat # obs.beat /\ obs'.beat = "pong")
              => /\ t.awaitingPong
                 /\ ~u.awaitingPong /\ ~u.heartbeatTimeout
                 /\ u.heartbeatInterval
                 /\ u.state = "CONNECTED" /\ u.sock = "open"
         /\ (u.sock = "terminated" /\ t.sock # "terminated")
              => t.awaitingPong /\ obs'.beat \in {"unanswered", "timeout"}]_vars

\* A ping went unanswered until the pong timeout, the socket was terminated
\* and its 'close' left the transport waiting to reconnect.
C34_Witness ==
  /\ obs.beat = "timeout"
  /\ obs.disconnectCalls = 1
  /\ transports[Alone].sock = "closed"
  /\ transports[Alone].state = "RECONNECTING"
  /\ transports[Alone].reconnectTimer
  /\ ~transports[Alone].intentionalDisconnect
  /\ ~transports[Alone].heartbeatInterval

\* C35: a transport has at most one socket that is connecting or connected,
\* and a connect() call made while the state is CONNECTING, CONNECTED or
\* RECONNECTING creates no second one.
C35_OneConnection ==
  \/ transports[Alone].stale = "none"
  \/ transports[Alone].sock \in {"none", "closed"}

\* C38: when the forward target's response to a forwarded task arrives, the
\* forward key of the task is there and names the originator, and what is
\* then written is that response, to the originator.
C38_ForwardKeyBeforeResponse ==
  [][( /\ obs'.frames = obs.frames + 1
       /\ router'.last.origin # 0 )
       => LET t == router'.last.task
              o == router'.last.origin
          IN  /\ router.forward[t] = o
              /\ \A x \in router'.last.sent :
                    x.to = o /\ x.frame.type = "response" /\ x.frame.task = t]_vars

\* C39: when the connection of a peer closes while that peer holds a
\* forwarded task it has not answered, the forward key of the task is removed
\* in that step and a failure response for the task is written to the
\* originator.
C39_ForwardDroppedOnDisconnect ==
  [][\A p \in PeerIds :
       (conns[p] \in {"open", "closing"} /\ conns'[p] = "closed")
       => \A h \in router.held :
            (h.peer = p /\ h.origin # 0 /\ router.forward[h.task] = h.origin)
            => /\ router'.forward[h.task] = 0
               /\ router'.last # router.last
               /\ \E x \in router'.last.sent :
                     x.to = h.origin /\ x.frame.type = "response"
                                     /\ x.frame.task = h.task]_vars

\* C40: a start() called while another start() is in progress is refused as
\* 'already started' and changes neither the listener nor the connections.
C40_OverlappingStartRefused ==
  [][(api.again = "none" /\ api'.again # "none" /\ startInProgress(Cur))
       => /\ api'.again = "already_started"
          /\ server' = server
          /\ peers' = peers
          /\ conns' = conns
          /\ clientTransport' = clientTransport]_vars
====
